---- MODULE Spec2Model ----
(***************************************************************************)
(* A model of the EV3 block-diagram document builder of mindstormer:       *)
(* src/src/ev3/parser.rs (FileBuilder and the decoders), the event         *)
(* collection of src/src/utils.rs and File::new of src/src/ev3/project.rs. *)
(*                                                                         *)
(* Strings are TLA+ strings; their characters are reached with SubSeq.     *)
(* An Option is a sequence of length at most one: None is <<>>, Some(x) is *)
(* <<x>>.  A Result is a record with the field ok; a failed one carries    *)
(* the kind of the failure (err) and whether it is a panic, which aborts   *)
(* the process instead of being returned.                                  *)
(* Names and attribute values are valid UTF-8 throughout, and numbers stay *)
(* far below usize::MAX: the InvalidEncoding and the overflow branches are *)
(* not modelled.  The content of a Text event may be invalid UTF-8.        *)
(***************************************************************************)
EXTENDS Integers, Sequences, FiniteSets, TLC

VARIABLES
    tokens,     \* what the XML reader still has to deliver (ends with Eof)
    events,     \* FileBuilder.events
    idx,        \* FileBuilder.idx
    decl,       \* FileBuilder.decl     (Option)
    version,    \* FileBuilder.version  (Option)
    name,       \* FileBuilder.name     (Option)
    blocks,     \* FileBuilder.blocks   (id -> Block)
    wires,      \* FileBuilder.wires    (id -> Wire)
    pc,         \* where File::new is: "new", "parse", "done", "aborted"
    parsed,     \* what FileBuilder::parse returned (Option of a Result)
    file,       \* what File::new returned (Option of a Result)
    steps,      \* iterations of the loop of parse started so far
    input,      \* the argument of the decoder under test
    output,     \* what the decoder under test returned (Option of a Result)
    zip,        \* the members of the archive get_project_from_zip reads
    index,      \* i of its loop over the members
    metadata,   \* its locals title, description, year, ... (Options)
    files,      \* its local files
    loaded      \* what get_project_from_zip returned (Option of a Result)

vars == <<tokens, events, idx, decl, version, name, blocks, wires, pc, parsed,
          file, steps, input, output, zip, index, metadata, files, loaded>>

loaderVars == <<zip, index, metadata, files, loaded>>

builderVars == <<tokens, events, idx, decl, version, name, blocks, wires, pc,
                 parsed, file, steps>>

builderVarsButPc == <<tokens, events, idx, decl, version, name, blocks, wires,
                      parsed, file, steps>>

decoderVars == <<input, output>>

-----------------------------------------------------------------------------
(* Options and Results *)

None == <<>>

Some(x) == <<x>>

IsSome(o) == o # <<>>

Unwrap(o) == o[1]

Ok(v) == [ok |-> TRUE, val |-> v]

Err(kind) == [ok |-> FALSE, panic |-> FALSE, err |-> kind]

Panic(what) == [ok |-> FALSE, panic |-> TRUE, err |-> what]

\* The empty HashMap.
EmptyMap == [k \in {} |-> None]

\* HashMap::insert: the entry under k is v afterwards, whatever it was.
Insert(m, k, v) == [x \in DOMAIN m \cup {k} |-> IF x = k THEN v ELSE m[x]]

-----------------------------------------------------------------------------
(* Strings *)

CharAt(s, i) == SubSeq(s, i, i)

\* str::find(c): the 1-based position of the first c in s, 0 when there is none.
Find(s, c) ==
    LET hits == {i \in 1..Len(s) : CharAt(s, i) = c}
    IN  IF hits = {} THEN 0 ELSE CHOOSE i \in hits : \A j \in hits : i <= j

\* str::split(c): the pieces between the occurrences of c; "" gives <<"">>.
RECURSIVE Split(_, _)
Split(s, c) ==
    LET i == Find(s, c)
    IN  IF i = 0 THEN <<s>>
        ELSE <<SubSeq(s, 1, i - 1)>> \o Split(SubSeq(s, i + 1, Len(s)), c)

Digits == <<"0", "1", "2", "3", "4", "5", "6", "7", "8", "9">>

IsDigit(c) == \E d \in 1..10 : Digits[d] = c

DigitVal(c) == (CHOOSE d \in 1..10 : Digits[d] = c) - 1

RECURSIVE DecimalValue(_, _)
DecimalValue(s, acc) ==
    IF s = "" THEN acc
    ELSE DecimalValue(Tail(s), acc * 10 + DigitVal(Head(s)))

AllDigits(s) == \A i \in 1..Len(s) : IsDigit(CharAt(s, i))

\* ParseUsize that takes a sign as ParseIsize does.
ParseUsize_TakesSign(s) ==
    IF s = "" THEN Err("InvalidNumber")
    ELSE IF s \in {"+", "-"} THEN Err("InvalidNumber")
    ELSE LET digits == IF Head(s) \in {"+", "-"} THEN Tail(s) ELSE s
         IN  IF ~AllDigits(digits) THEN Err("InvalidNumber")
             ELSE IF Head(s) = "-" THEN Ok(0 - DecimalValue(digits, 0))
             ELSE Ok(DecimalValue(digits, 0))

\* <usize as FromStr>::from_str: an optional '+', then one or more digits.
ParseUsize(s) ==
    IF s = "" THEN Err("InvalidNumber")
    ELSE IF s \in {"+", "-"} THEN Err("InvalidNumber")
    ELSE LET digits == IF Head(s) = "+" THEN Tail(s) ELSE s
         IN  IF AllDigits(digits) THEN Ok(DecimalValue(digits, 0))
             ELSE Err("InvalidNumber")

\* <isize as FromStr>::from_str: an optional '+' or '-', then one or more digits.
ParseIsize(s) ==
    IF s = "" THEN Err("InvalidNumber")
    ELSE IF s \in {"+", "-"} THEN Err("InvalidNumber")
    ELSE LET digits == IF Head(s) \in {"+", "-"} THEN Tail(s) ELSE s
         IN  IF ~AllDigits(digits) THEN Err("InvalidNumber")
             ELSE IF Head(s) = "-" THEN Ok(0 - DecimalValue(digits, 0))
             ELSE Ok(DecimalValue(digits, 0))

-----------------------------------------------------------------------------
(* The decoders *)

\* BoundsOf that takes the first two of at least four values.
BoundsOf_FirstTwo(vals) ==
    IF \E i \in 1..Len(vals) : ~vals[i].ok THEN Err("MalformedBounds")
    ELSE IF Len(vals) >= 4 THEN Ok(<<vals[1].val, vals[2].val>>)
    ELSE Err("MalformedBounds")

\* The end of parse_bounds, from the collected fields: the first failure of a
\* field, else the third and the fourth of exactly four values.
BoundsOf(vals) ==
    IF \E i \in 1..Len(vals) : ~vals[i].ok THEN Err("MalformedBounds")
    ELSE IF Len(vals) = 4 THEN Ok(<<vals[3].val, vals[4].val>>)
    ELSE Err("MalformedBounds")

\* The map of parse_bounds: every field parsed as a usize.
ParseFields(fields) == [i \in 1..Len(fields) |-> ParseUsize(fields[i])]

\* parse_bounds: split at single spaces, every field a usize, four of them.
parse_bounds(s) == BoundsOf(ParseFields(Split(s, " ")))

\* JointOf without the filter on kind N.
JointOf_KeepsAll(s) ==
    IF Len(s) < 1 THEN Panic("unwrap")
    ELSE LET rest  == SubSeq(s, 2, Len(s))
             colon == Find(rest, ":")
             paren == Find(rest, ")")
         IN  IF colon = 0 \/ paren = 0 THEN Panic("unwrap")
             ELSE IF colon < 2 \/ paren < colon THEN Panic("unwrap")
             ELSE [ok   |-> TRUE, skip |-> FALSE,
                   id   |-> SubSeq(rest, 2, colon - 1),
                   role |-> SubSeq(rest, colon + 1, paren - 1)]

\* One element of the iterator chain of parse_joints, for the token s:
\* kind and rest (panics on an empty token), the filter on kind N, then
\* id and role out of "(id:role)" (panics without ':' or ')', or with them
\* in the wrong place).  skip marks a token the filter drops.
JointOf(s) ==
    IF Len(s) < 1 THEN Panic("unwrap")
    ELSE IF CharAt(s, 1) # "N" THEN [ok |-> TRUE, skip |-> TRUE]
    ELSE LET rest  == SubSeq(s, 2, Len(s))
             colon == Find(rest, ":")
             paren == Find(rest, ")")
         IN  IF colon = 0 \/ paren = 0 THEN Panic("unwrap")
             ELSE IF colon < 2 \/ paren < colon THEN Panic("unwrap")
             ELSE [ok   |-> TRUE, skip |-> FALSE,
                   id   |-> SubSeq(rest, 2, colon - 1),
                   role |-> SubSeq(rest, colon + 1, paren - 1)]

\* The for loop of parse_joints over the lazily evaluated tokens.
RECURSIVE JointsLoop(_, _, _)
JointsLoop(toks, seq_in, seq_out) ==
    IF toks = <<>> THEN [ok |-> TRUE, seq_in |-> seq_in, seq_out |-> seq_out]
    ELSE LET j == JointOf(Head(toks))
         IN  IF ~j.ok THEN j
             ELSE IF j.skip THEN JointsLoop(Tail(toks), seq_in, seq_out)
             ELSE IF j.role = "SequenceOut"
                  THEN JointsLoop(Tail(toks), seq_in, Some(j.id))
             ELSE IF j.role = "SequenceIn"
                  THEN JointsLoop(Tail(toks), Some(j.id), seq_out)
             ELSE Err("MalformedJoints")

\* parse_joints: the (input, output) pair of a Joints value.
parse_joints(val) ==
    LET r == JointsLoop(Split(val, " "), None, None)
    IN  IF ~r.ok THEN r
        ELSE IF ~IsSome(r.seq_in) THEN Err("MalformedJoints")
        ELSE IF ~IsSome(r.seq_out) THEN Err("MalformedJoints")
        ELSE Ok(<<Unwrap(r.seq_in), Unwrap(r.seq_out)>>)

-----------------------------------------------------------------------------
(* Events, names and attributes *)

\* An event of the XML reader: its kind, its raw text (the qualified name of
\* a tag, the content of anything else) and its raw attributes.
Event(kind, text, attrs) == [kind |-> kind, text |-> text, attrs |-> attrs]

Attr(key, value) == [key |-> key, value |-> value]

\* extract_name_from_qname: QName::decompose splits at the first ':'.
extract_name_from_qname(qname) ==
    LET i == Find(qname, ":")
    IN  IF i = 0 THEN [name |-> qname, prefix |-> None]
        ELSE [name   |-> SubSeq(qname, i + 1, Len(qname)),
              prefix |-> Some(SubSeq(qname, 1, i - 1))]

\* parse_attributes: every attribute as ((name, prefix), value), in order.
parse_attributes(t) ==
    [i \in 1..Len(t.attrs) |->
        [key |-> extract_name_from_qname(t.attrs[i].key), value |-> t.attrs[i].value]]

\* attr.key.0
KeyOf(attr) == attr.key.name

\* Where a `for attr in attributes` loop bails, given the positions of the
\* attributes it bails on: at the first of them, 0 when there is none.
First(hits) == IF hits = {} THEN 0 ELSE CHOOSE i \in hits : \A j \in hits : i <= j

\* What a loop that assigns `x = Some(attr.value)` on key k leaves in x.
LastValue(attributes, k) ==
    LET hits == {i \in 1..Len(attributes) : KeyOf(attributes[i]) = k}
    IN  IF hits = {} THEN None
        ELSE Some(attributes[CHOOSE i \in hits : \A j \in hits : j <= i].value)

-----------------------------------------------------------------------------
(* The event cursor.  A sub-parser changes nothing of the builder but idx,  *)
(* so it takes the value of idx and returns the new one.                    *)

FailAt(kind, i) == [ok |-> FALSE, panic |-> FALSE, err |-> kind, idx |-> i]

\* A failure or a panic r of a callee, passed on with the cursor at i.
Propagate(r, i) == [ok |-> FALSE, panic |-> r.panic, err |-> r.err, idx |-> i]

next_event(i) ==
    IF Len(events) > i
    THEN [ok |-> TRUE, event |-> events[i + 1], idx |-> i + 1]
    ELSE FailAt("EndOfStream", i)

\* peek_event that moves the cursor as next_event does.
peek_event_Advances(i) ==
    IF Len(events) > i
    THEN [ok |-> TRUE, event |-> events[i + 1], idx |-> i + 1]
    ELSE FailAt("EndOfStream", i)

peek_event(i) ==
    IF Len(events) > i
    THEN [ok |-> TRUE, event |-> events[i + 1], idx |-> i]
    ELSE FailAt("EndOfStream", i)

-----------------------------------------------------------------------------
(* Blocks and wires *)

SequenceWireDataType == "NationalInstruments:SourceModel:DataTypes:X3SequenceWireDataType"

SequenceBlock(ty, bounds, wire_id) == [ty |-> ty, bounds |-> bounds, wire_id |-> wire_id]

StartType == <<"Start">>

MotorMoveType(ports, steering, speed) == <<"MotorMove", ports, steering, speed>>

Block(ty, bounds, sequence_in, sequence_out) ==
    [ty |-> ty, bounds |-> bounds, sequence_in |-> sequence_in,
     sequence_out |-> sequence_out]

Wire(in, out) == [input |-> in, output |-> out]

\* What the attribute loop over a sequence Terminal bails on.
BadTerminalAttr(a, wantId, wantDirection) ==
    \/ KeyOf(a) = "Id" /\ a.value # wantId
    \/ KeyOf(a) = "Direction" /\ a.value # wantDirection
    \/ KeyOf(a) = "DataType" /\ a.value # SequenceWireDataType
    \/ KeyOf(a) = "Bounds" /\ ~parse_bounds(a.value).ok
    \/ KeyOf(a) \notin {"Id", "Direction", "Wire", "DataType", "Hotspot", "Bounds"}

\* TerminalOf that forgets the Wire attribute.
TerminalOf_DropsWire(attributes, bad, bounds, ty, i) ==
    IF bad # 0 THEN FailAt("UnknownAttribute", i)
    ELSE IF ~IsSome(bounds) THEN FailAt("MissingRequiredField", i)
    ELSE [ok |-> TRUE, idx |-> i,
          val |-> SequenceBlock(ty, parse_bounds(Unwrap(bounds)).val, None)]

\* The outcome of that loop, bad being where it bailed (0: nowhere) and
\* bounds the Bounds value it met (an Option), and the SequenceBlock made of
\* what it collected.
TerminalOf(attributes, bad, bounds, ty, i) ==
    IF bad # 0
    THEN IF KeyOf(attributes[bad]) = "Bounds" THEN FailAt("MalformedBounds", i)
         ELSE IF KeyOf(attributes[bad]) \in {"Id", "Direction", "DataType"}
              THEN FailAt("UnexpectedStructure", i)
         ELSE FailAt("UnknownAttribute", i)
    ELSE IF ~IsSome(bounds) THEN FailAt("MissingRequiredField", i)
    ELSE [ok |-> TRUE, idx |-> i,
          val |-> SequenceBlock(ty, parse_bounds(Unwrap(bounds)).val,
                                LastValue(attributes, "Wire"))]

\* The attribute loop over a sequence Terminal, as written three times in
\* the source (for the Terminal of a StartBlock and for the two of a method
\* call): Id and Direction are compared with the expected values when they
\* are present, DataType with the sequence-wire type, Bounds is decoded,
\* Wire is kept, Hotspot is accepted, any other key is refused.
SequenceTerminal(attributes, ty, wantId, wantDirection, i) ==
    TerminalOf(attributes,
               First({k \in 1..Len(attributes) :
                        BadTerminalAttr(attributes[k], wantId, wantDirection)}),
               LastValue(attributes, "Bounds"), ty, i)

-----------------------------------------------------------------------------
(* The sub-parsers *)

\* StartBlockClose that takes an end tag of any name.
StartBlockClose_AnyEnd(id, size, seqOut, e5) ==
    IF ~seqOut.ok THEN seqOut
    ELSE IF ~e5.ok THEN e5
    ELSE IF e5.event.kind # "End" THEN FailAt("UnexpectedStructure", e5.idx)
    ELSE [ok |-> TRUE, idx |-> e5.idx,
          val |-> <<id, Block(StartType, size, None, Some(seqOut.val))>>]

\* The end of parse_start_block: the SequenceBlock seqOut of its Terminal,
\* then the close tag e5, </StartBlock>.
StartBlockClose(id, size, seqOut, e5) ==
    IF ~seqOut.ok THEN seqOut
    ELSE IF ~e5.ok THEN e5
    ELSE IF e5.event.kind # "End" THEN FailAt("UnexpectedStructure", e5.idx)
    ELSE IF extract_name_from_qname(e5.event.text).name # "StartBlock"
         THEN FailAt("UnexpectedStructure", e5.idx)
    ELSE IF IsSome(extract_name_from_qname(e5.event.text).prefix)
         THEN FailAt("UnexpectedStructure", e5.idx)
    ELSE [ok |-> TRUE, idx |-> e5.idx,
          val |-> <<id, Block(StartType, size, None, Some(seqOut.val))>>]

\* parse_start_block, from the attributes of the StartBlock start tag, with
\* the cursor at i: (id, Block) of the Start variant.  The k-th next_event
\* finds the cursor at i + k - 1, every earlier one having advanced it by one.
parse_start_block(attributes, i) ==
    LET Bad(a) ==
            \/ KeyOf(a) = "Bounds" /\ ~parse_bounds(a.value).ok
            \/ KeyOf(a) \notin {"Id", "Target", "Bounds"}
        bad    == First({k \in 1..Len(attributes) : Bad(attributes[k])})
        id     == LastValue(attributes, "Id")
        size   == LastValue(attributes, "Bounds")
        e1     == next_event(i)
        open   == extract_name_from_qname(e1.event.text)
        e2     == next_event(i + 1)
        e3     == next_event(i + 2)
        close  == extract_name_from_qname(e3.event.text)
        e4     == next_event(i + 3)
        term   == extract_name_from_qname(e4.event.text)
    IN  IF bad # 0
        THEN IF KeyOf(attributes[bad]) = "Bounds" THEN FailAt("MalformedBounds", i)
             ELSE FailAt("UnknownAttribute", i)
        ELSE IF ~IsSome(id) \/ ~IsSome(size) THEN FailAt("MissingRequiredField", i)
        \* <ConfigurableMethodTerminal>
        ELSE IF ~e1.ok THEN e1
        ELSE IF e1.event.kind # "Start" THEN FailAt("UnexpectedStructure", e1.idx)
        ELSE IF parse_attributes(e1.event) # <<>> THEN FailAt("UnexpectedStructure", e1.idx)
        ELSE IF IsSome(open.prefix) THEN FailAt("UnexpectedStructure", e1.idx)
        ELSE IF open.name # "ConfigurableMethodTerminal"
             THEN FailAt("UnexpectedStructure", e1.idx)
        \* the empty tag inside it, ignored
        ELSE IF ~e2.ok THEN e2
        ELSE IF e2.event.kind # "Empty" THEN FailAt("UnexpectedStructure", e2.idx)
        \* </ConfigurableMethodTerminal>
        ELSE IF ~e3.ok THEN e3
        ELSE IF e3.event.kind # "End" THEN FailAt("UnexpectedStructure", e3.idx)
        ELSE IF IsSome(close.prefix) THEN FailAt("UnexpectedStructure", e3.idx)
        ELSE IF close.name # "ConfigurableMethodTerminal"
             THEN FailAt("UnexpectedStructure", e3.idx)
        \* <Terminal Id="SequenceOut" .../>
        ELSE IF ~e4.ok THEN e4
        ELSE IF e4.event.kind # "Empty" THEN FailAt("UnexpectedStructure", e4.idx)
        ELSE IF term.name # "Terminal" THEN FailAt("UnexpectedStructure", e4.idx)
        ELSE IF IsSome(term.prefix) THEN FailAt("UnexpectedStructure", e4.idx)
        ELSE StartBlockClose(Unwrap(id), parse_bounds(Unwrap(size)).val,
                             SequenceTerminal(parse_attributes(e4.event), "Out",
                                              "SequenceOut", "Output", e4.idx),
                             next_event(i + 4))

\* parse_block_attribute that takes the event that ends the run.
parse_block_attribute_Consumes(i) ==
    IF ~next_event(i).ok THEN next_event(i)
    ELSE [ok |-> TRUE, idx |-> i + 1, val |-> None]

\* parse_block_attribute, with the cursor at i: None (and the cursor where it
\* was) when the next event is no start tag, else the {id, value} of one
\* <ConfigurableMethodTerminal ConfiguredValue=value><Terminal Id=id/></...>.
parse_block_attribute(i) ==
    LET p1     == peek_event(i)
        e1     == next_event(i)
        open   == extract_name_from_qname(e1.event.text)
        attrs1 == parse_attributes(e1.event)
        p2     == peek_event(i + 1)
        e2     == next_event(i + 1)
        term   == extract_name_from_qname(e2.event.text)
        attrs2 == parse_attributes(e2.event)
        Bad(a) == KeyOf(a) \notin {"Id", "Direction", "DataType", "Hotspot", "Bounds"}
        id     == LastValue(attrs2, "Id")
        e3     == next_event(i + 2)
    IN  IF ~p1.ok THEN p1
        ELSE IF p1.event.kind # "Start" THEN [ok |-> TRUE, idx |-> i, val |-> None]
        ELSE IF IsSome(open.prefix) THEN FailAt("UnexpectedStructure", e1.idx)
        ELSE IF open.name # "ConfigurableMethodTerminal"
             THEN FailAt("UnexpectedStructure", e1.idx)
        ELSE IF Len(attrs1) # 1 THEN FailAt("UnexpectedStructure", e1.idx)
        ELSE IF KeyOf(attrs1[1]) # "ConfiguredValue"
             THEN FailAt("UnknownAttribute", e1.idx)
        ELSE IF ~p2.ok THEN p2
        ELSE IF p2.event.kind # "Empty" THEN FailAt("UnexpectedStructure", e1.idx)
        ELSE IF IsSome(term.prefix) THEN FailAt("UnexpectedStructure", e2.idx)
        ELSE IF term.name # "Terminal" THEN FailAt("UnexpectedStructure", e2.idx)
        ELSE IF \E k \in 1..Len(attrs2) : Bad(attrs2[k])
             THEN FailAt("UnknownAttribute", e2.idx)
        ELSE IF ~IsSome(id) THEN FailAt("MissingRequiredField", e2.idx)
        ELSE IF ~e3.ok THEN e3
        ELSE IF e3.event.kind # "End" THEN FailAt("UnexpectedStructure", e3.idx)
        ELSE [ok |-> TRUE, idx |-> e3.idx,
              val |-> Some([id |-> Unwrap(id), value |-> attrs1[1].value])]

\* BothTerminals that hands the two Terminals over in the other order.
BothTerminals_Swapped(seqIn, seqOut) ==
    IF ~seqOut.ok THEN seqOut
    ELSE [ok |-> TRUE, idx |-> seqOut.idx, val |-> <<seqOut.val, seqIn.val>>]

\* The end of parse_method_sequence_blocks: the pair of the two Terminals.
BothTerminals(seqIn, seqOut) ==
    IF ~seqOut.ok THEN seqOut
    ELSE [ok |-> TRUE, idx |-> seqOut.idx, val |-> <<seqIn.val, seqOut.val>>]

\* The second half of parse_method_sequence_blocks: the SequenceBlock seqIn of
\* the first Terminal, then the second Terminal e2.
SecondTerminal(seqIn, e2) ==
    IF ~seqIn.ok THEN seqIn
    ELSE IF ~e2.ok THEN e2
    ELSE IF e2.event.kind # "Empty" THEN FailAt("UnexpectedStructure", e2.idx)
    ELSE IF IsSome(extract_name_from_qname(e2.event.text).prefix)
         THEN FailAt("UnexpectedStructure", e2.idx)
    ELSE IF extract_name_from_qname(e2.event.text).name # "Terminal"
         THEN FailAt("UnexpectedStructure", e2.idx)
    ELSE BothTerminals(seqIn,
                       SequenceTerminal(parse_attributes(e2.event), "Out",
                                        "SequenceOut", "Output", e2.idx))

\* parse_method_sequence_blocks, with the cursor at i: the two sequence
\* Terminals of a method call, (sequence_in, sequence_out).
parse_method_sequence_blocks(i) ==
    LET e1 == next_event(i)
        n1 == extract_name_from_qname(e1.event.text)
    IN  IF ~e1.ok THEN e1
        ELSE IF e1.event.kind # "Empty" THEN FailAt("UnexpectedStructure", e1.idx)
        ELSE IF IsSome(n1.prefix) THEN FailAt("UnexpectedStructure", e1.idx)
        ELSE IF n1.name # "Terminal" THEN FailAt("UnexpectedStructure", e1.idx)
        ELSE SecondTerminal(SequenceTerminal(parse_attributes(e1.event), "In",
                                             "SequenceIn", "Input", e1.idx),
                            next_event(i + 1))

\* The Target literal without the backslash.
MoveUnlimitedTarget_Dot == "MoveUnlimited.vix"

\* The Target value that selects the motor-move decoder: the Rust literal
\* "MoveUnlimited\\.vix", a backslash before the dot.
MoveUnlimitedTarget == "MoveUnlimited\\.vix"

InterruptsToListenFor == "InterruptsToListenFor_16B03592_CD76_4D58_8DC3_E3C3091E327A"

\* PortsOf that takes the second and the fourth character.
PortsOf_SecondAndFourth(value) ==
    IF Len(value) < 4 THEN Err("MalformedField")
    ELSE Ok(<<CharAt(value, 2), CharAt(value, 4)>>)

\* PortsOf that takes the third and the sixth character.
PortsOf_ThirdAndSixth(value) ==
    IF Len(value) < 6 THEN Err("MalformedField")
    ELSE Ok(<<CharAt(value, 3), CharAt(value, 6)>>)

\* The "Ports" arm of parse_motor_move: the third and the fifth character.
PortsOf(value) ==
    IF Len(value) < 3 THEN Err("MalformedField")
    ELSE IF Len(value) < 5 THEN Err("MalformedField")
    ELSE Ok(<<CharAt(value, 3), CharAt(value, 5)>>)

\* The body of the while loop of parse_motor_move for the outcome a of
\* parse_block_attribute, with the three Options as collected so far.
RECURSIVE MotorMoveLoop(_, _, _, _)
MotorMoveArm(a, ports, steering, speed) ==
    IF ~a.ok THEN a
    ELSE IF ~IsSome(a.val)
         THEN [ok |-> TRUE, idx |-> a.idx, ports |-> ports,
               steering |-> steering, speed |-> speed]
    ELSE IF Unwrap(a.val).id = "Ports"
         THEN IF ~PortsOf(Unwrap(a.val).value).ok
              THEN FailAt("MalformedField", a.idx)
              ELSE MotorMoveLoop(a.idx, Some(PortsOf(Unwrap(a.val).value).val),
                                 steering, speed)
    ELSE IF Unwrap(a.val).id = "Steering"
         THEN IF ~ParseIsize(Unwrap(a.val).value).ok
              THEN FailAt("MalformedField", a.idx)
              ELSE MotorMoveLoop(a.idx, ports,
                                 Some(ParseIsize(Unwrap(a.val).value).val), speed)
    ELSE IF Unwrap(a.val).id = "Speed"
         THEN IF ~ParseUsize(Unwrap(a.val).value).ok
              THEN FailAt("MalformedField", a.idx)
              ELSE MotorMoveLoop(a.idx, ports, steering,
                                 Some(ParseUsize(Unwrap(a.val).value).val))
    ELSE IF Unwrap(a.val).id = InterruptsToListenFor
         THEN MotorMoveLoop(a.idx, ports, steering, speed)
    ELSE FailAt("UnknownAttribute", a.idx)

\* The while loop of parse_motor_move, with the cursor at i.
MotorMoveLoop(i, ports, steering, speed) ==
    MotorMoveArm(parse_block_attribute(i), ports, steering, speed)

\* MotorMoveBlock that leaves sequence_in out.
MotorMoveBlock_NoSequenceIn(bounds, loop, seq) ==
    IF ~seq.ok THEN seq
    ELSE [ok |-> TRUE, idx |-> seq.idx,
          val |-> Block(MotorMoveType(Unwrap(loop.ports), Unwrap(loop.steering),
                                      Unwrap(loop.speed)),
                        bounds, None, Some(seq.val[2]))]

\* The end of parse_motor_move: the MotorMove Block of the collected fields
\* and the two Terminals seq.
MotorMoveBlock(bounds, loop, seq) ==
    IF ~seq.ok THEN seq
    ELSE [ok |-> TRUE, idx |-> seq.idx,
          val |-> Block(MotorMoveType(Unwrap(loop.ports), Unwrap(loop.steering),
                                      Unwrap(loop.speed)),
                        bounds, Some(seq.val[1]), Some(seq.val[2]))]

\* parse_motor_move after its while loop, whose outcome is loop.
MotorMoveFields(bounds, loop) ==
    IF ~loop.ok THEN loop
    ELSE IF ~IsSome(loop.ports) \/ ~IsSome(loop.steering) \/ ~IsSome(loop.speed)
         THEN FailAt("MissingRequiredField", loop.idx)
    ELSE MotorMoveBlock(bounds, loop, parse_method_sequence_blocks(loop.idx))

\* parse_motor_move, with the cursor at i: the MotorMove Block.
parse_motor_move(bounds, i) ==
    MotorMoveFields(bounds, MotorMoveLoop(i, None, None, None))

\* MethodCallClose that takes whatever event stands behind the block.
MethodCallClose_AnyEvent(id, block, e) ==
    IF ~e.ok THEN e
    ELSE [ok |-> TRUE, idx |-> e.idx, val |-> <<id, block.val>>]

\* The end of parse_method_call: the close tag e after the block.
MethodCallClose(id, block, e) ==
    IF ~e.ok THEN e
    ELSE IF e.event.kind # "End" THEN FailAt("UnexpectedStructure", e.idx)
    ELSE IF IsSome(extract_name_from_qname(e.event.text).prefix)
         THEN FailAt("UnexpectedStructure", e.idx)
    ELSE IF extract_name_from_qname(e.event.text).name # "ConfigurableMethodCall"
         THEN FailAt("UnexpectedStructure", e.idx)
    ELSE [ok |-> TRUE, idx |-> e.idx, val |-> <<id, block.val>>]

\* parse_method_call after the decoder its Target selects returned block.
MethodCallBlock(id, block) ==
    IF ~block.ok THEN block
    ELSE MethodCallClose(id, block, next_event(block.idx))

\* parse_method_call, from the attributes of the ConfigurableMethodCall start
\* tag, with the cursor at i: (id, Block).
parse_method_call(attributes, i) ==
    LET Bad(a) ==
            \/ KeyOf(a) = "Bounds" /\ ~parse_bounds(a.value).ok
            \/ KeyOf(a) \notin {"Id", "Bounds", "Target"}
        bad    == First({k \in 1..Len(attributes) : Bad(attributes[k])})
        id     == LastValue(attributes, "Id")
        bounds == LastValue(attributes, "Bounds")
        ty     == LastValue(attributes, "Target")
    IN  IF bad # 0
        THEN IF KeyOf(attributes[bad]) = "Bounds" THEN FailAt("MalformedBounds", i)
             ELSE FailAt("UnknownAttribute", i)
        ELSE IF ~IsSome(id) \/ ~IsSome(bounds) \/ ~IsSome(ty)
             THEN FailAt("MissingRequiredField", i)
        ELSE IF Unwrap(ty) = MoveUnlimitedTarget
             THEN MethodCallBlock(Unwrap(id),
                                  parse_motor_move(parse_bounds(Unwrap(bounds)).val, i))
        ELSE FailAt("UnknownMethodTarget", i)

\* The attribute loop of parse_wire_tag and what follows it, with joints the
\* outcome of parse_joints on the Joints value (None without one).
WireOf(attributes, joints, i) ==
    LET Bad(a) == KeyOf(a) \notin {"Id", "Joints"}
        unknown == First({k \in 1..Len(attributes) : Bad(attributes[k])})
        at == First({k \in 1..Len(attributes) : KeyOf(attributes[k]) = "Joints"})
        id == LastValue(attributes, "Id")
    IN  IF IsSome(joints) /\ ~Unwrap(joints).ok /\ (unknown = 0 \/ at < unknown)
        THEN Propagate(Unwrap(joints), i)
        ELSE IF unknown # 0 THEN FailAt("UnknownAttribute", i)
        ELSE IF ~IsSome(joints) \/ ~IsSome(id) THEN FailAt("MissingRequiredField", i)
        ELSE [ok |-> TRUE, idx |-> i,
              val |-> <<Unwrap(id),
                        Wire(Unwrap(joints).val[1], Unwrap(joints).val[2])>>]

\* parse_wire_tag, from the attributes of a Wire empty tag: (id, Wire).  It
\* consumes no event; a panic of parse_joints passes through it.
parse_wire_tag(attributes, i) ==
    WireOf(attributes,
           IF IsSome(LastValue(attributes, "Joints"))
           THEN Some(parse_joints(Unwrap(LastValue(attributes, "Joints"))))
           ELSE None,
           i)

-----------------------------------------------------------------------------
(* The top-level handlers.  b is the builder: [idx, decl, version, name,    *)
(* blocks, wires]; a handler returns the builder it leaves.                 *)

Done(b) == [ok |-> TRUE, brk |-> FALSE, b |-> b]

Break(b) == [ok |-> TRUE, brk |-> TRUE, b |-> b]

Fail(kind, b) == [ok |-> FALSE, panic |-> FALSE, err |-> kind, b |-> b]

\* FromSub that puts the cursor back at the first event.
FromSub_Rewinds(r, b) ==
    [ok |-> FALSE, panic |-> r.panic, err |-> r.err, b |-> [b EXCEPT !.idx = 0]]

\* The failure or panic r of a sub-parser, with the cursor where it left it.
FromSub(r, b) ==
    [ok |-> FALSE, panic |-> r.panic, err |-> r.err, b |-> [b EXCEPT !.idx = r.idx]]

\* FileBuilder::version
SetVersion(b, v) ==
    IF IsSome(b.version) THEN Fail("DuplicateVersion", b)
    ELSE Done([b EXCEPT !.version = Some(v)])

\* FileBuilder::decl that overwrites what it holds.
SetDecl_Overwrites(b, d) == Done([b EXCEPT !.decl = Some(d)])

\* FileBuilder::decl
SetDecl(b, d) ==
    IF IsSome(b.decl) THEN Fail("DuplicateDeclaration", b)
    ELSE Done([b EXCEPT !.decl = Some(d)])

\* The SourceFile arm that passes over attributes it does not know.
SourceFileTag_AnyAttribute(prefix, attributes, b) ==
    LET number    == LastValue(attributes, "Version")
        namespace == LastValue(attributes, "xmlns")
    IN  IF IsSome(prefix) THEN Fail("UnexpectedStructure", b)
        ELSE IF ~IsSome(number) \/ ~IsSome(namespace) THEN Fail("MissingRequiredField", b)
        ELSE SetVersion(b, [number |-> Unwrap(number), namespace |-> Unwrap(namespace)])

\* The "SourceFile" arm of parse_start_tag.
SourceFileTag(prefix, attributes, b) ==
    LET Bad(a)    == KeyOf(a) \notin {"Version", "xmlns"}
        number    == LastValue(attributes, "Version")
        namespace == LastValue(attributes, "xmlns")
    IN  IF IsSome(prefix) THEN Fail("UnexpectedStructure", b)
        ELSE IF \E k \in 1..Len(attributes) : Bad(attributes[k])
             THEN Fail("UnknownAttribute", b)
        ELSE IF ~IsSome(number) \/ ~IsSome(namespace) THEN Fail("MissingRequiredField", b)
        ELSE SetVersion(b, [number |-> Unwrap(number), namespace |-> Unwrap(namespace)])

\* The "Namespace" arm of parse_start_tag.
NamespaceTag(prefix, attributes, b) ==
    LET Bad(a) == KeyOf(a) = "Name" /\ a.value # "Project"
    IN  IF IsSome(prefix) THEN Fail("UnexpectedStructure", b)
        ELSE IF \E k \in 1..Len(attributes) : Bad(attributes[k])
             THEN Fail("UnexpectedStructure", b)
        ELSE Done(b)

\* The "BlockDiagram" arm of parse_start_tag.
BlockDiagramTag(attributes, b) ==
    LET Bad(a) == KeyOf(a) # "Name" \/ a.value # "__RootDiagram__"
        bad    == First({k \in 1..Len(attributes) : Bad(attributes[k])})
    IN  IF bad = 0 THEN Done(b)
        ELSE IF KeyOf(attributes[bad]) # "Name" THEN Fail("UnknownAttribute", b)
        ELSE Fail("UnexpectedStructure", b)

\* InsertStartBlock that refuses an id the mapping already holds.
InsertStartBlock_Checks(r, b) ==
    IF ~r.ok THEN FromSub(r, b)
    ELSE IF r.val[1] \in DOMAIN b.blocks
         THEN Fail("DuplicateBlockId", [b EXCEPT !.idx = r.idx])
    ELSE Done([b EXCEPT !.idx = r.idx,
                        !.blocks = Insert(b.blocks, r.val[1], r.val[2])])

\* The "StartBlock" arm of parse_start_tag: the block is inserted without a
\* look at what the mapping holds under its id.
InsertStartBlock(r, b) ==
    IF ~r.ok THEN FromSub(r, b)
    ELSE Done([b EXCEPT !.idx = r.idx,
                        !.blocks = Insert(b.blocks, r.val[1], r.val[2])])

StartBlockTag(prefix, attributes, b) ==
    IF IsSome(prefix) THEN Fail("UnexpectedStructure", b)
    ELSE InsertStartBlock(parse_start_block(attributes, b.idx), b)

\* The "ConfigurableMethodCall" arm of parse_start_tag: an id the mapping
\* already holds is refused.
InsertMethodCall(r, b) ==
    IF ~r.ok THEN FromSub(r, b)
    ELSE IF r.val[1] \in DOMAIN b.blocks
         THEN Fail("DuplicateBlockId", [b EXCEPT !.idx = r.idx])
    ELSE Done([b EXCEPT !.idx = r.idx,
                        !.blocks = Insert(b.blocks, r.val[1], r.val[2])])

MethodCallTag(prefix, attributes, b) ==
    IF IsSome(prefix) THEN Fail("UnexpectedStructure", b)
    ELSE InsertMethodCall(parse_method_call(attributes, b.idx), b)

IgnoredStartTags == {"Icon", "IconPanel", "AnimationProperties.Animations",
                     "EventProperties.Events"}

\* parse_start_tag that skips a start tag it does not know.
parse_start_tag_Skips(tag, prefix, attributes, b) ==
    IF tag = "SourceFile" THEN SourceFileTag(prefix, attributes, b)
    ELSE IF tag = "Namespace" THEN NamespaceTag(prefix, attributes, b)
    ELSE IF tag = "BlockDiagram" THEN BlockDiagramTag(attributes, b)
    ELSE IF tag = "StartBlock" THEN StartBlockTag(prefix, attributes, b)
    ELSE IF tag = "ConfigurableMethodCall" THEN MethodCallTag(prefix, attributes, b)
    ELSE Done(b)

parse_start_tag(tag, prefix, attributes, b) ==
    IF tag = "SourceFile" THEN SourceFileTag(prefix, attributes, b)
    ELSE IF tag = "Namespace" THEN NamespaceTag(prefix, attributes, b)
    ELSE IF tag = "VirtualInstrument" THEN Done(b)
    ELSE IF tag = "FrontPanel" THEN Done(b)
    ELSE IF tag = "BlockDiagram" THEN BlockDiagramTag(attributes, b)
    ELSE IF tag = "StartBlock" THEN StartBlockTag(prefix, attributes, b)
    ELSE IF tag = "ConfigurableMethodCall" THEN MethodCallTag(prefix, attributes, b)
    ELSE IF tag \in IgnoredStartTags THEN Done(b)
    ELSE Fail("UnknownTag", b)

\* parse_end_tag that takes an end tag of any name.
parse_end_tag_AnyName(tag, prefix, b) == Done(b)

\* parse_end_tag that takes a whitelisted end tag only behind a start tag of
\* its name.
parse_end_tag_NeedsOpenTag(tag, prefix, b) ==
    IF \E k \in 1..(b.idx - 1) : events[k].kind = "Start" /\ events[k].text = tag
    THEN Done(b)
    ELSE Fail("UnknownTag", b)

IgnoredEndTags == {"FrontPanel", "BlockDiagram", "AnimationProperties.Animations",
                   "EventProperties.Events", "IconPanel", "Icon",
                   "VirtualInstrument", "Namespace", "SourceFile"}

parse_end_tag(tag, prefix, b) ==
    IF tag \in IgnoredEndTags THEN Done(b) ELSE Fail("UnknownTag", b)

\* InsertWire that inserts without a look at the mapping.
InsertWire_Overwrites(r, b) ==
    IF ~r.ok THEN FromSub(r, b)
    ELSE Done([b EXCEPT !.wires = Insert(b.wires, r.val[1], r.val[2])])

\* The "Wire" arm of parse_empty_tag.
InsertWire(r, b) ==
    IF ~r.ok THEN FromSub(r, b)
    ELSE IF r.val[1] \in DOMAIN b.wires THEN Fail("DuplicateWireId", b)
    ELSE Done([b EXCEPT !.wires = Insert(b.wires, r.val[1], r.val[2])])

WireTag(attributes, b) == InsertWire(parse_wire_tag(attributes, b.idx), b)

\* parse_empty_tag that also takes the empty form of a start tag it ignores.
parse_empty_tag_StartNames(tag, prefix, attributes, b) ==
    IF tag \in {"FrontPanelCanvas", "AnimationsContainer", "EventContainer",
                "Icon", "IconPanel"}
    THEN Done(b)
    ELSE IF tag = "Wire"
         THEN InsertWire(parse_wire_tag(attributes, b.idx), b)
    ELSE Fail("UnknownTag", b)

IgnoredEmptyTags == {"FrontPanelCanvas", "AnimationsContainer", "EventContainer"}

parse_empty_tag(tag, prefix, attributes, b) ==
    IF tag \in IgnoredEmptyTags THEN Done(b)
    ELSE IF tag = "Wire" THEN WireTag(attributes, b)
    ELSE Fail("UnknownTag", b)

\* The content of a Text event whose bytes are not valid UTF-8.
NotUtf8 == "\\xFF"

\* The Text arm of parse: String::from_utf8(s).unwrap(), then the bail that
\* quotes the text.
TextArm(text, b) ==
    IF text = NotUtf8 THEN [ok |-> FALSE, panic |-> TRUE, err |-> "unwrap", b |-> b]
    ELSE Fail("UnexpectedText", b)

\* One iteration of the loop of FileBuilder::parse.
parse_iteration(b) ==
    LET e  == next_event(b.idx)
        b1 == [b EXCEPT !.idx = e.idx]
        t  == e.event
        n  == extract_name_from_qname(t.text)
    IN  IF ~e.ok THEN Fail(e.err, b)
        ELSE IF t.kind = "Start"
             THEN parse_start_tag(n.name, n.prefix, parse_attributes(t), b1)
        ELSE IF t.kind = "End" THEN parse_end_tag(n.name, n.prefix, b1)
        ELSE IF t.kind = "Empty"
             THEN parse_empty_tag(n.name, n.prefix, parse_attributes(t), b1)
        ELSE IF t.kind = "Text" THEN TextArm(t.text, b1)
        ELSE IF t.kind = "Comment" THEN Done(b1)
        ELSE IF t.kind = "CData" THEN Fail("UnexpectedEvent", b1)
        ELSE IF t.kind = "Decl" THEN SetDecl(b1, t.text)
        ELSE IF t.kind = "PI" THEN Fail("UnexpectedEvent", b1)
        ELSE IF t.kind = "DocType" THEN Fail("UnexpectedEvent", b1)
        ELSE Break(b1)

\* build that does not ask for the declaration.
build_NoDecl(b) ==
    IF ~IsSome(b.name) THEN Err("MissingRequiredField")
    ELSE IF ~IsSome(b.version) THEN Err("MissingRequiredField")
    ELSE Ok([name |-> Unwrap(b.name), version |-> Unwrap(b.version),
             decl |-> IF IsSome(b.decl) THEN Unwrap(b.decl) ELSE "",
             blocks |-> b.blocks, wires |-> b.wires])

\* FileBuilder::build
build(b) ==
    IF ~IsSome(b.name) THEN Err("MissingRequiredField")
    ELSE IF ~IsSome(b.version) THEN Err("MissingRequiredField")
    ELSE IF ~IsSome(b.decl) THEN Err("MissingRequiredField")
    ELSE Ok([name |-> Unwrap(b.name), version |-> Unwrap(b.version),
             decl |-> Unwrap(b.decl), blocks |-> b.blocks, wires |-> b.wires])

\* collect_to_vec: the events the reader delivers before its first Eof; the
\* Eof itself is not pushed.
RECURSIVE collect_to_vec(_)
collect_to_vec(reader) ==
    IF Head(reader).kind = "Eof" THEN <<>>
    ELSE <<Head(reader)>> \o collect_to_vec(Tail(reader))

-----------------------------------------------------------------------------
(* The program files the model reads: a document is up to MaxFragments     *)
(* fragments, one after the other, and the reader's closing Eof.           *)

MaxFragments == 2

StartTag(qname, attrs) == Event("Start", qname, attrs)

EndTag(qname) == Event("End", qname, <<>>)

EmptyTag(qname, attrs) == Event("Empty", qname, attrs)

Eof == Event("Eof", "", <<>>)

\* The container start tags of a program file, down to the root diagram.
Containers ==
    << StartTag("SourceFile", <<Attr("Version", "1.0.2.10"),
                                Attr("xmlns", "http://www.ni.com/SourceModel.xsd")>>),
       StartTag("Namespace", <<Attr("Name", "Project")>>),
       StartTag("VirtualInstrument", <<>>),
       StartTag("FrontPanel", <<>>),
       StartTag("BlockDiagram", <<Attr("Name", "__RootDiagram__")>>) >>

\* The end tags that close them.
Closers ==
    << EndTag("BlockDiagram"), EndTag("FrontPanel"), EndTag("VirtualInstrument"),
       EndTag("Namespace"), EndTag("SourceFile") >>

\* A sequence Terminal; wire is an Option.
TerminalTag(id, direction, bounds, wire) ==
    EmptyTag("Terminal",
             <<Attr("Id", id), Attr("Direction", direction)>>
             \o (IF IsSome(wire) THEN <<Attr("Wire", Unwrap(wire))>> ELSE <<>>)
             \o <<Attr("DataType", SequenceWireDataType), Attr("Hotspot", "0.5 1"),
                  Attr("Bounds", bounds)>>)

\* <StartBlock Id=id ...> ... </StartBlock>; wire is an Option.
StartBlockConstruct(id, wire) ==
    << StartTag("StartBlock", <<Attr("Id", id), Attr("Bounds", "100 200 70 91"),
                                Attr("Target", "X3\\.Lib:StartBlockTest")>>),
       StartTag("ConfigurableMethodTerminal", <<>>),
       EmptyTag("Terminal", <<Attr("Id", "Result"), Attr("Direction", "Output")>>),
       EndTag("ConfigurableMethodTerminal"),
       TerminalTag("SequenceOut", "Output", "0 0 18 40", wire),
       EndTag("StartBlock") >>

\* <ConfigurableMethodTerminal ConfiguredValue=value><Terminal Id=id/></...>
BlockAttributeConstruct(id, value) ==
    << StartTag("ConfigurableMethodTerminal", <<Attr("ConfiguredValue", value)>>),
       EmptyTag("Terminal", <<Attr("Id", id), Attr("Direction", "Input")>>),
       EndTag("ConfigurableMethodTerminal") >>

\* <ConfigurableMethodCall Id=id Target=target> with the attribute run attrs
\* (a sequence of <<id, value>>) and the two sequence Terminals.
MethodCallConstruct(id, target, attrs, wireIn, wireOut) ==
    LET RECURSIVE Run(_)
        Run(as) == IF as = <<>> THEN <<>>
                   ELSE BlockAttributeConstruct(Head(as)[1], Head(as)[2]) \o Run(Tail(as))
    IN  << StartTag("ConfigurableMethodCall",
                    <<Attr("Id", id), Attr("Bounds", "204 200 197 91"),
                      Attr("Target", target)>>) >>
        \o Run(attrs)
        \o << TerminalTag("SequenceIn", "Input", "0 0 18 91", wireIn),
              TerminalTag("SequenceOut", "Output", "179 0 18 91", wireOut),
              EndTag("ConfigurableMethodCall") >>

WireEmptyTag(id, joints) == EmptyTag("Wire", <<Attr("Id", id), Attr("Joints", joints)>>)

\* A document of fragments, flattened.
RECURSIVE Flatten(_)
Flatten(fs) == IF fs = <<>> THEN <<>> ELSE Head(fs) \o Flatten(Tail(fs))

\* A ConfigurableMethodCall start tag on its own.
MethodCallStartTag(id, target) ==
    StartTag("ConfigurableMethodCall",
             <<Attr("Id", id), Attr("Bounds", "204 200 197 91"), Attr("Target", target)>>)

\* A SourceFile start tag named qname with the attributes keys, in that
\* order; its Version is not that of Containers.
SourceFileStartTag(qname, keys) ==
    StartTag(qname, [k \in 1..Len(keys) |->
                        Attr(keys[k], IF keys[k] = "Version" THEN "1.0.3.0"
                                      ELSE "http://www.ni.com/SourceModel.xsd")])

\* A motor-move call as the editor writes it: ports B and C of layer 1.
MotorMoveConstruct(id, wireIn, wireOut) ==
    MethodCallConstruct(id, "MoveUnlimited\\.vix",
                        << <<"Ports", "1.B+C">>, <<"Steering", "-50">>, <<"Speed", "75">>,
                           <<InterruptsToListenFor, "False">> >>,
                        wireIn, wireOut)

\* The attribute run Ports = "xxAxxB", Steering = "-50", Speed = "75".
ExampleRun == << <<"Ports", "xxAxxB">>, <<"Steering", "-50">>, <<"Speed", "75">> >>

Fragments ==
    { <<Event("Decl", "1.0", <<>>)>>,
      <<Event("Decl", "1.1", <<>>)>>,
      Containers,
      <<SourceFileStartTag("SourceFile", <<"xmlns", "Version">>)>>,
      <<SourceFileStartTag("x:SourceFile", <<"Version", "xmlns">>)>>,
      <<SourceFileStartTag("SourceFile", <<"Version", "xmlns", "Foo">>)>>,
      <<SourceFileStartTag("SourceFile", <<"Version">>)>>,
      <<StartTag("Namespace", <<Attr("Name", "Project"), Attr("Foo", "1")>>)>>,
      Closers,
      StartBlockConstruct("n1", None),
      StartBlockConstruct("n1", Some("w1")),
      StartBlockConstruct("n2", Some("w2")),
      SubSeq(StartBlockConstruct("n3", None), 1, 3),
      SubSeq(StartBlockConstruct("n3", None), 1, 5) \o <<EndTag("ConfigurableMethodCall")>>,
      MotorMoveConstruct("n1", Some("w1"), None),
      MotorMoveConstruct("n2", Some("w1"), Some("w2")),
      MethodCallConstruct("n3", "MoveUnlimited.vix", ExampleRun, None, None),
      MethodCallConstruct("n3", "MoveUnlimited\\.vix", ExampleRun, None, None),
      MethodCallConstruct("n4", "MoveUnlimited\\.vix", SubSeq(ExampleRun, 1, 2), None, None),
      <<MethodCallStartTag("n4", "MoveTank\\.vix")>>,
      <<WireEmptyTag("w1", "N(n1:SequenceOut) N(n2:SequenceIn)")>>,
      <<WireEmptyTag("w1", "N(n2:SequenceIn) H(c:Bend) N(n3:SequenceOut)")>>,
      <<WireEmptyTag("w2", "N(a:SequenceIn) N(b:SequenceOut) H(c:Bend)")>>,
      <<WireEmptyTag("w2", "N(a:SequenceOut) N(b:SequenceOut)")>>,
      <<WireEmptyTag("w3", "N(a:SequenceIn)  N(b:SequenceOut)")>>,
      BlockAttributeConstruct("Ports", "1.B+C"),
      <<StartTag("Icon", <<>>)>>,
      <<StartTag("IconPanel", <<Attr("Foo", "1")>>)>>,
      <<EmptyTag("FrontPanelCanvas", <<Attr("Foo", "1")>>)>>,
      <<StartTag("Foo", <<>>)>>,
      <<EndTag("StartBlock")>>,
      <<EmptyTag("FrontPanelCanvas", <<>>)>>,
      <<EmptyTag("Icon", <<>>)>>,
      <<Event("Text", "text", <<>>)>>,
      <<Event("Text", NotUtf8, <<>>)>>,
      <<Event("Comment", "comment", <<>>)>>,
      <<Event("CData", "cdata", <<>>)>>,
      <<Event("PI", "pi", <<>>)>>,
      <<Event("DocType", "doctype", <<>>)>> }

\* What the reader delivers for the document made of the fragments fs.
Document(fs) == Flatten(fs) \o <<Eof>>

\* The name of the archive member File::new is called with.
MemberName == IF zip = <<>> THEN "Program.ev3p" ELSE zip[index + 1].name

\* The locals of get_project_from_zip before its loop.
NoMetadata ==
    [title |-> None, description |-> None, year |-> None, thumbnail |-> None,
     activity_assets |-> None, activity |-> None, project |-> None]

\* No archive is being read.
NoLoader ==
    /\ zip = <<>>
    /\ index = 0
    /\ metadata = NoMetadata
    /\ files = <<>>
    /\ loaded = None

-----------------------------------------------------------------------------
(* File::new on one program file *)

\* FileBuilder::default() and a reader over the member's bytes.
Init ==
    /\ \E n \in 0..MaxFragments : \E fs \in [1..n -> Fragments] : tokens = Document(fs)
    /\ events = <<>>
    /\ idx = 0
    /\ decl = None
    /\ version = None
    /\ name = None
    /\ blocks = EmptyMap
    /\ wires = EmptyMap
    /\ pc = "new"
    /\ parsed = None
    /\ file = None
    /\ steps = 0
    /\ input = None
    /\ output = None
    /\ NoLoader

\* FileBuilder::from_xml, then builder.name(name).
FromXml ==
    /\ pc = "new"
    /\ events' = collect_to_vec(tokens)
    /\ tokens' = <<>>
    /\ idx' = 0
    /\ name' = Some(MemberName)
    /\ pc' = "parse"
    /\ UNCHANGED <<decl, version, blocks, wires, parsed, file, steps, input, output,
                   loaderVars>>

Builder ==
    [idx |-> idx, decl |-> decl, version |-> version, name |-> name,
     blocks |-> blocks, wires |-> wires]

\* File::new that notes the failure of an iteration and lets the loop go on.
FileNew_GoesOn(r) ==
    /\ idx' = r.b.idx
    /\ decl' = r.b.decl
    /\ version' = r.b.version
    /\ name' = r.b.name
    /\ blocks' = r.b.blocks
    /\ wires' = r.b.wires
    /\ steps' = steps + 1
    /\ IF ~r.ok
       THEN pc' = "parse" /\ parsed' = Some(Err(r.err)) /\ file' = Some(Err(r.err))
       ELSE IF r.brk
            THEN pc' = "done" /\ parsed' = Some(Ok(<<>>)) /\ file' = Some(build(r.b))
            ELSE pc' = "parse" /\ parsed' = None /\ file' = None
    /\ UNCHANGED <<tokens, events, input, output, loaderVars>>

\* What File::new does with the outcome r of one iteration of parse: go on
\* with the loop, or return the first failure, or (after the break) build.
FileNew(r) ==
    /\ idx' = r.b.idx
    /\ decl' = r.b.decl
    /\ version' = r.b.version
    /\ name' = r.b.name
    /\ blocks' = r.b.blocks
    /\ wires' = r.b.wires
    /\ steps' = steps + 1
    /\ IF ~r.ok
       THEN IF r.panic
            THEN pc' = "aborted" /\ parsed' = None /\ file' = None
            ELSE pc' = "done" /\ parsed' = Some(Err(r.err)) /\ file' = Some(Err(r.err))
       ELSE IF r.brk
            THEN pc' = "done" /\ parsed' = Some(Ok(<<>>)) /\ file' = Some(build(r.b))
            ELSE pc' = "parse" /\ parsed' = None /\ file' = None
    /\ UNCHANGED <<tokens, events, input, output, loaderVars>>

\* The loop of parse is running and its next event is of the given kind.
NextIs(kind) ==
    /\ pc = "parse"
    /\ idx < Len(events)
    /\ events[idx + 1].kind = kind

\* StartEvent that leaves the cursor where it was.
StartEvent_Stays ==
    /\ NextIs("Start")
    /\ FileNew(Done(Builder))

\* An iteration of the loop of parse, by the kind of the event it takes.
StartEvent ==
    /\ NextIs("Start")
    /\ FileNew(parse_iteration(Builder))

EndEvent ==
    /\ NextIs("End")
    /\ FileNew(parse_iteration(Builder))

EmptyEvent ==
    /\ NextIs("Empty")
    /\ FileNew(parse_iteration(Builder))

TextEvent ==
    /\ NextIs("Text")
    /\ FileNew(parse_iteration(Builder))

\* The Comment arm as a bail.
CommentEvent_Fails ==
    /\ NextIs("Comment")
    /\ FileNew(Fail("UnexpectedEvent", [Builder EXCEPT !.idx = idx + 1]))

CommentEvent ==
    /\ NextIs("Comment")
    /\ FileNew(parse_iteration(Builder))

CDataEvent ==
    /\ NextIs("CData")
    /\ FileNew(parse_iteration(Builder))

DeclEvent ==
    /\ NextIs("Decl")
    /\ FileNew(parse_iteration(Builder))

PIEvent ==
    /\ NextIs("PI")
    /\ FileNew(parse_iteration(Builder))

DocTypeEvent ==
    /\ NextIs("DocType")
    /\ FileNew(parse_iteration(Builder))

\* An iteration of the loop of parse with every event consumed.
EndOfEvents ==
    /\ pc = "parse"
    /\ idx >= Len(events)
    /\ FileNew(parse_iteration(Builder))

Next ==
    \/ FromXml
    \/ StartEvent
    \/ EndEvent
    \/ EmptyEvent
    \/ TextEvent
    \/ CommentEvent
    \/ CDataEvent
    \/ DeclEvent
    \/ PIEvent
    \/ DocTypeEvent
    \/ EndOfEvents

Spec == Init /\ [][Next]_vars

-----------------------------------------------------------------------------
(* The decoders on their own: parse_bounds and parse_joints applied to      *)
(* strings made of up to MaxFields (MaxJoints) pieces joined by one space,  *)
(* and the Ports arm of parse_motor_move applied to values of up to         *)
(* MaxPortChars characters.  A piece carries, beside its text, what it      *)
(* stands for.                                                              *)

MaxFields == 5

MaxJoints == 4

MaxPortChars == 6

\* The characters of a Ports value.
PortChars == {"x", "A", "B", "."}

\* The characters chars one after the other, as a string.
RECURSIVE Concat(_)
Concat(chars) == IF chars = <<>> THEN "" ELSE Head(chars) \o Concat(Tail(chars))

\* The fields of a bounds string: num is the number the text denotes, None
\* when it denotes no unsigned integer.
FieldTokens ==
    { [text |-> "0",   num |-> Some(0)],
      [text |-> "7",   num |-> Some(7)],
      [text |-> "40",  num |-> Some(40)],
      [text |-> "305", num |-> Some(305)],
      [text |-> "+7",  num |-> Some(7)],
      [text |-> "",    num |-> None],
      [text |-> "-3",  num |-> None],
      [text |-> "4x",  num |-> None] }

\* The tokens of a joints string: kind, id and role are what the token
\* states; a token that is not of the shape <kind>(<id>:<role>) has none.
JointToken(text, kind, id, role) ==
    [text |-> text, shaped |-> TRUE, kind |-> kind, id |-> id, role |-> role]

JointTokens ==
    { JointToken("N(a:SequenceIn)", "N", "a", "SequenceIn"),
      JointToken("N(b:SequenceOut)", "N", "b", "SequenceOut"),
      JointToken("N(d:SequenceIn)", "N", "d", "SequenceIn"),
      JointToken("N(e:SequenceOut)", "N", "e", "SequenceOut"),
      JointToken("N(f:Bend)", "N", "f", "Bend"),
      JointToken("H(c:Bend)", "H", "c", "Bend"),
      JointToken("W(g:SequenceIn)", "W", "g", "SequenceIn"),
      [text |-> "", shaped |-> FALSE, kind |-> "", id |-> "", role |-> ""],
      [text |-> "N(h)", shaped |-> FALSE, kind |-> "N", id |-> "h", role |-> ""] }

\* The texts of the pieces joined by single spaces.
RECURSIVE Join(_)
Join(parts) ==
    IF Len(parts) = 1 THEN parts[1].text
    ELSE parts[1].text \o " " \o Join(Tail(parts))

DecoderInput(decoder, parts) ==
    [decoder |-> decoder, parts |-> parts, text |-> Join(parts)]

DecoderInit ==
    /\ tokens = <<Eof>>
    /\ events = <<>>
    /\ idx = 0
    /\ decl = None
    /\ version = None
    /\ name = None
    /\ blocks = EmptyMap
    /\ wires = EmptyMap
    /\ pc = "decoder"
    /\ parsed = None
    /\ file = None
    /\ steps = 0
    /\ \/ \E n \in 1..MaxFields : \E parts \in [1..n -> FieldTokens] :
              input = Some(DecoderInput("bounds", parts))
       \/ \E n \in 1..MaxJoints : \E parts \in [1..n -> JointTokens] :
              input = Some(DecoderInput("joints", parts))
       \/ \E n \in 0..MaxPortChars : \E chars \in [1..n -> PortChars] :
              input = Some([decoder |-> "ports", parts |-> chars, text |-> Concat(chars)])
    /\ output = None
    /\ NoLoader

DecodeBounds ==
    /\ pc = "decoder"
    /\ output = None
    /\ Unwrap(input).decoder = "bounds"
    /\ output' = Some(parse_bounds(Unwrap(input).text))
    /\ UNCHANGED <<builderVars, input, loaderVars>>

DecodeJoints ==
    /\ pc = "decoder"
    /\ output = None
    /\ Unwrap(input).decoder = "joints"
    /\ output' = Some(parse_joints(Unwrap(input).text))
    /\ UNCHANGED <<builderVars, input, loaderVars>>

\* The "Ports" arm of parse_motor_move on the value of the attribute.
DecodePorts ==
    /\ pc = "decoder"
    /\ output = None
    /\ Unwrap(input).decoder = "ports"
    /\ output' = Some(PortsOf(Unwrap(input).text))
    /\ UNCHANGED <<builderVars, input, loaderVars>>

DecoderNext ==
    \/ DecodeBounds
    \/ DecodeJoints
    \/ DecodePorts

DecoderSpec == DecoderInit /\ [][DecoderNext]_vars

-----------------------------------------------------------------------------
(* FileBuilder::build on its own, called on a builder that holds any of    *)
(* name, version and declaration and some blocks and wires.                *)

\* Blocks and wires as parse builds them.
BuiltBlocks ==
    [id \in {"n1", "n2", "n3"} |->
        IF id = "n1"
        THEN Block(StartType, <<70, 91>>, None,
                   Some(SequenceBlock("Out", <<18, 40>>, Some("w1"))))
        ELSE Block(MotorMoveType(<<"B", "C">>, -50, 75), <<197, 91>>,
                   Some(SequenceBlock("In", <<18, 91>>,
                                      IF id = "n2" THEN Some("w1") ELSE Some("w2"))),
                   Some(SequenceBlock("Out", <<18, 91>>,
                                      IF id = "n2" THEN Some("w2") ELSE None)))]

BuiltWires ==
    [id \in {"w1", "w2"} |-> IF id = "w1" THEN Wire("n2", "n1") ELSE Wire("n3", "n2")]

\* The mapping m on the keys ks only.
Restrict(m, ks) == [k \in ks |-> m[k]]

BuildInit ==
    /\ tokens = <<>>
    /\ events = <<>>
    /\ idx = 0
    /\ decl \in {None, Some("1.0")}
    /\ version \in {None, Some([number |-> "1.0.2.10",
                                namespace |-> "http://www.ni.com/SourceModel.xsd"])}
    /\ name \in {None, Some("Program.ev3p")}
    /\ \E ks \in SUBSET DOMAIN BuiltBlocks : blocks = Restrict(BuiltBlocks, ks)
    /\ \E ks \in SUBSET DOMAIN BuiltWires : wires = Restrict(BuiltWires, ks)
    /\ pc = "build"
    /\ parsed = None
    /\ file = None
    /\ steps = 0
    /\ input = None
    /\ output = None
    /\ NoLoader

\* builder.build()
Build ==
    /\ pc = "build"
    /\ file' = Some(build(Builder))
    /\ pc' = "built"
    /\ UNCHANGED <<tokens, events, idx, decl, version, name, blocks, wires, parsed,
                   steps, input, output, loaderVars>>

BuildNext == Build

BuildSpec == BuildInit /\ [][BuildNext]_vars

-----------------------------------------------------------------------------
(* Project::get_project_from_zip: the loop over the members of the archive, *)
(* File::new running on every member that is not one of the metadata       *)
(* members.  The archive is up to MaxMembers members, with or without the  *)
(* seven metadata members behind them.  Opening the archive and reading a  *)
(* member succeed; ___CopyrightYear holds decimal digits.                  *)

MaxMembers == 2

\* A member: its name and its bytes, which are text (valid UTF-8 or not)
\* or, for a program file, what the XML reader delivers for them.
Member(member_name, utf8, text, reader) ==
    [name |-> member_name, utf8 |-> utf8, text |-> text, tokens |-> reader]

MetadataNames ==
    <<"___CopyrightYear", "___ProjectDescription", "___ProjectTitle",
      "___ProjectThumbnail", "ActivityAssets.laz", "Activity.x3a", "Project.lvprojx">>

\* The seven metadata members, well-formed.
AllMetadata ==
    [k \in 1..7 |-> Member(MetadataNames[k], TRUE,
                           IF k = 1 THEN "2013" ELSE "some " \o MetadataNames[k], <<>>)]

\* The fragments the program files of an archive are made of.
ProgramFragments ==
    { <<Event("Decl", "1.0", <<>>)>>,
      Containers,
      Closers,
      StartBlockConstruct("n1", None),
      <<WireEmptyTag("w1", "N(n1:SequenceOut) N(n2:SequenceIn)")>>,
      <<Event("Text", "text", <<>>)>>,
      <<Event("Text", NotUtf8, <<>>)>>,
      <<Event("Comment", "comment", <<>>)>>,
      <<Event("CData", "cdata", <<>>)>>,
      <<Event("PI", "pi", <<>>)>>,
      <<Event("DocType", "doctype", <<>>)>> }

Members ==
    {AllMetadata[k] : k \in 1..7}
    \cup {Member("___ProjectTitle", FALSE, "", <<>>),
          Member("___ProjectThumbnail", FALSE, "", <<>>),
          Member("Project.lvprojx", FALSE, "", <<>>)}
    \cup {Member("Program.ev3p", TRUE, "", Document(<<f>>)) : f \in ProgramFragments}

\* One of the metadata arms of the match on the member's name, for the
\* member m: the locals afterwards, or the failure of String::from_utf8.
MetadataArm(m, md) ==
    IF m.name = "___CopyrightYear"
    THEN Ok([md EXCEPT !.year = Some(DecimalValue(m.text, 0))])
    ELSE IF m.name = "___ProjectThumbnail"
         THEN Ok([md EXCEPT !.thumbnail = Some([utf8 |-> m.utf8, text |-> m.text])])
    ELSE IF m.name = "ActivityAssets.laz"
         THEN Ok([md EXCEPT !.activity_assets = Some([utf8 |-> m.utf8, text |-> m.text])])
    ELSE IF ~m.utf8 THEN Err("InvalidEncoding")
    ELSE IF m.name = "___ProjectDescription"
         THEN Ok([md EXCEPT !.description = Some(m.text)])
    ELSE IF m.name = "___ProjectTitle" THEN Ok([md EXCEPT !.title = Some(m.text)])
    ELSE IF m.name = "Activity.x3a" THEN Ok([md EXCEPT !.activity = Some(m.text)])
    ELSE Ok([md EXCEPT !.project = Some(m.text)])

\* What follows the loop: every local must be there.
ProjectOf(md, fs) ==
    IF \E k \in DOMAIN md : ~IsSome(md[k]) THEN Err("MissingRequiredField")
    ELSE Ok([title |-> Unwrap(md.title), description |-> Unwrap(md.description),
             year |-> Unwrap(md.year), thumbnail |-> Unwrap(md.thumbnail),
             activity |-> Unwrap(md.activity),
             activity_assets |-> Unwrap(md.activity_assets),
             files |-> fs, project |-> Unwrap(md.project)])

ProjectInit ==
    /\ tokens = <<>>
    /\ events = <<>>
    /\ idx = 0
    /\ decl = None
    /\ version = None
    /\ name = None
    /\ blocks = EmptyMap
    /\ wires = EmptyMap
    /\ pc = "zip"
    /\ parsed = None
    /\ file = None
    /\ steps = 0
    /\ input = None
    /\ output = None
    /\ \E n \in 0..MaxMembers : \E head \in [1..n -> Members] :
          \E tail \in {<<>>, AllMetadata} : zip = head \o tail
    /\ index = 0
    /\ metadata = NoMetadata
    /\ files = <<>>
    /\ loaded = None

\* An iteration of the loop for a metadata member.
ReadMetadata ==
    /\ pc = "zip"
    /\ index < Len(zip)
    /\ \E k \in 1..7 : MetadataNames[k] = zip[index + 1].name
    /\ LET r == MetadataArm(zip[index + 1], metadata)
       IN  IF r.ok
           THEN /\ metadata' = r.val
                /\ index' = index + 1
                /\ UNCHANGED <<pc, loaded>>
           ELSE /\ loaded' = Some(r)
                /\ pc' = "loaded"
                /\ UNCHANGED <<metadata, index>>
    /\ UNCHANGED <<builderVarsButPc, input, output, zip, files>>

\* An iteration of the loop for any other member: File::new(name, bytes)
\* starts on a fresh builder.
OpenFile ==
    /\ pc = "zip"
    /\ index < Len(zip)
    /\ \A k \in 1..7 : MetadataNames[k] # zip[index + 1].name
    /\ tokens' = zip[index + 1].tokens
    /\ events' = <<>>
    /\ idx' = 0
    /\ decl' = None
    /\ version' = None
    /\ name' = None
    /\ blocks' = EmptyMap
    /\ wires' = EmptyMap
    /\ parsed' = None
    /\ file' = None
    /\ steps' = 0
    /\ pc' = "new"
    /\ UNCHANGED <<input, output, loaderVars>>

\* The push that passes over a file that failed and goes on with the loop.
PushFileOf_SkipsFailure(r) ==
    /\ files' = IF r.ok THEN Append(files, r.val) ELSE files
    /\ index' = index + 1
    /\ pc' = "zip"
    /\ UNCHANGED loaded

\* File::new has returned r: files.push(r?), an error ending the load.
PushFileOf(r) ==
    IF r.ok
    THEN /\ files' = Append(files, r.val)
         /\ index' = index + 1
         /\ pc' = "zip"
         /\ UNCHANGED loaded
    ELSE /\ loaded' = Some(r)
         /\ pc' = "loaded"
         /\ UNCHANGED <<files, index>>

PushFile ==
    /\ pc = "done"
    /\ zip # <<>>
    /\ PushFileOf(Unwrap(file))
    /\ UNCHANGED <<builderVarsButPc, input, output, zip, metadata>>

\* After the loop: the Project, if every metadata member was found.
Finish ==
    /\ pc = "zip"
    /\ index = Len(zip)
    /\ loaded' = Some(ProjectOf(metadata, files))
    /\ pc' = "loaded"
    /\ UNCHANGED <<builderVarsButPc, input, output, zip, index, metadata, files>>

ProjectNext ==
    \/ ReadMetadata
    \/ OpenFile
    \/ PushFile
    \/ Finish
    \/ Next

ProjectSpec == ProjectInit /\ [][ProjectNext]_vars

-----------------------------------------------------------------------------
(* File::new on program files made of block constructs that may be out of   *)
(* shape: a document is up to MaxConstructs of the fragments below.         *)

MaxConstructs == 2

\* The events seq with e in place of the p-th.
Replace(seq, p, e) == [k \in 1..Len(seq) |-> IF k = p THEN e ELSE seq[k]]

\* The attributes of the sequence Terminal of a StartBlock.
SequenceOutAttrs ==
    <<Attr("Id", "SequenceOut"), Attr("Direction", "Output"),
      Attr("DataType", SequenceWireDataType), Attr("Hotspot", "0.5 1"),
      Attr("Bounds", "0 0 18 40")>>

\* What may stand in place of an event of a StartBlock construct: <<p, e>>
\* is the event e in place of the p-th event of the construct (the start tag
\* being the first).
StartBlockDeviations ==
    { <<2, EmptyTag("ConfigurableMethodTerminal", <<>>)>>,
      <<2, StartTag("Terminal", <<>>)>>,
      <<2, StartTag("ConfigurableMethodTerminal", <<Attr("ConfiguredValue", "1")>>)>>,
      <<2, StartTag("x:ConfigurableMethodTerminal", <<>>)>>,
      <<3, StartTag("Terminal", <<>>)>>,
      <<3, EmptyTag("Foo", <<Attr("Foo", "1")>>)>>,
      <<4, EmptyTag("ConfigurableMethodTerminal", <<>>)>>,
      <<4, EndTag("Terminal")>>,
      <<4, EndTag("x:ConfigurableMethodTerminal")>>,
      <<5, StartTag("Terminal", SequenceOutAttrs)>>,
      <<5, EmptyTag("Wire", SequenceOutAttrs)>>,
      <<5, EmptyTag("x:Terminal", SequenceOutAttrs)>>,
      <<6, Event("Comment", "comment", <<>>)>>,
      <<6, EndTag("ConfigurableMethodCall")>>,
      <<6, EndTag("x:StartBlock")>> }

\* Sequence Terminals from which attributes are absent, or with a wrong one.
BoundsOnlyTerminal == EmptyTag("Terminal", <<Attr("Bounds", "0 0 18 40")>>)

NoBoundsTerminal ==
    EmptyTag("Terminal", <<Attr("Id", "SequenceOut"), Attr("Direction", "Output"),
                           Attr("DataType", SequenceWireDataType)>>)

WrongDataTypeTerminal ==
    EmptyTag("Terminal", <<Attr("Id", "SequenceOut"), Attr("Direction", "Output"),
                           Attr("DataType", "Foo"), Attr("Bounds", "0 0 18 40")>>)

WrongIdTerminal ==
    EmptyTag("Terminal", <<Attr("Id", "SequenceIn"), Attr("Direction", "Output"),
                           Attr("DataType", SequenceWireDataType),
                           Attr("Bounds", "0 0 18 40")>>)

\* The motor-move call n4: its start tag, four attributes of three events
\* each, the two Terminals and the close tag.
MotorMoveN4 == MotorMoveConstruct("n4", None, Some("w1"))

ConstructFragments ==
    { <<Event("Decl", "1.0", <<>>)>>,
      Closers,
      <<WireEmptyTag("w1", "N(n1:SequenceOut) N(n4:SequenceIn)")>>,
      <<Event("Text", "text", <<>>)>>,
      <<Event("Comment", "comment", <<>>)>>,
      <<Event("CData", "cdata", <<>>)>>,
      <<Event("PI", "pi", <<>>)>>,
      <<Event("DocType", "doctype", <<>>)>>,
      StartBlockConstruct("n1", None),
      StartBlockConstruct("n2", Some("w1")),
      MotorMoveN4,
      \* a method call closed by another end tag, or by none
      Replace(MotorMoveN4, Len(MotorMoveN4), EndTag("StartBlock")),
      SubSeq(MotorMoveN4, 1, Len(MotorMoveN4) - 1),
      \* a method call that ends with its start tag, inside its attribute
      \* run, or behind it
      SubSeq(MotorMoveN4, 1, 1),
      SubSeq(MotorMoveN4, 1, 4),
      SubSeq(MotorMoveN4, 1, 13),
      \* the first attribute closed by an end tag of another name, or by no
      \* end tag
      Replace(MotorMoveN4, 4, EndTag("Foo")),
      Replace(MotorMoveN4, 4, Event("Comment", "comment", <<>>)),
      \* Terminals of a method call without attributes, or with a wrong one
      Replace(MotorMoveN4, 14, BoundsOnlyTerminal),
      Replace(MotorMoveN4, 15, WrongDataTypeTerminal),
      \* a Speed that is no number
      MethodCallConstruct("n5", "MoveUnlimited\\.vix",
                          << <<"Ports", "1.B+C">>, <<"Steering", "-50">>,
                             <<"Speed", "fast">> >>, None, None) }
    \cup {Replace(StartBlockConstruct("n3", None), d[1], d[2]) : d \in StartBlockDeviations}
    \cup {Replace(StartBlockConstruct("n3", None), 5, t) :
            t \in {BoundsOnlyTerminal, NoBoundsTerminal, WrongDataTypeTerminal,
                   WrongIdTerminal}}
    \cup {SubSeq(StartBlockConstruct("n3", None), 1, k) : k \in 1..5}

\* FileBuilder::default() and a reader over such a document.
ConstructInit ==
    /\ \E n \in 0..MaxConstructs : \E fs \in [1..n -> ConstructFragments] :
          tokens = Document(fs)
    /\ events = <<>>
    /\ idx = 0
    /\ decl = None
    /\ version = None
    /\ name = None
    /\ blocks = EmptyMap
    /\ wires = EmptyMap
    /\ pc = "new"
    /\ parsed = None
    /\ file = None
    /\ steps = 0
    /\ input = None
    /\ output = None
    /\ NoLoader

ConstructSpec == ConstructInit /\ [][Next]_vars

\* What a step of Next shows in pc and steps: from_xml leaves pc at "parse",
\* an iteration of the loop of parse counts one more step.  It can be taken
\* exactly where Next can, while pc is "new" or "parse".
Progress ==
    /\ pc \in {"new", "parse"}
    /\ pc' \in {"parse", "done", "aborted"}
    /\ steps' \in {steps, steps + 1}

\* The same, with the thread that runs File::new never left waiting: new and
\* parse are sequential code without I/O that runs on until it returns, so a
\* step that can be taken is taken.
FairConstructSpec == ConstructInit /\ [][Next]_vars /\ WF_<<pc, steps>>(Progress)

-----------------------------------------------------------------------------
(* File::new on one motor-move call: its start tag, a run of up to          *)
(* MaxAttributes block attributes, what stands where the two sequence       *)
(* Terminals belong, and its close tag.  input keeps what the document was  *)
(* made of.                                                                 *)

MaxAttributes == 4

\* A block attribute: id and value as written, whether the motor-move
\* decoder knows the id, and whether the value is one the id's arm decodes.
BlockAttribute(id, value, known, decodes) ==
    [id |-> id, value |-> value, known |-> known, decodes |-> decodes]

BlockAttributes ==
    { BlockAttribute("Ports", "1.B+C", TRUE, TRUE),
      BlockAttribute("Steering", "-50", TRUE, TRUE),
      BlockAttribute("Speed", "75", TRUE, TRUE),
      BlockAttribute("Speed", "-75", TRUE, FALSE),
      BlockAttribute(InterruptsToListenFor, "False", TRUE, TRUE),
      BlockAttribute("Brake", "1", FALSE, TRUE) }

\* The events of the attribute run as.
RECURSIVE AttributeRun(_)
AttributeRun(as) ==
    IF as = <<>> THEN <<>>
    ELSE BlockAttributeConstruct(Head(as).id, Head(as).value) \o AttributeRun(Tail(as))

SequenceInTag == TerminalTag("SequenceIn", "Input", "0 0 18 91", Some("w1"))

SequenceOutTag == TerminalTag("SequenceOut", "Output", "179 0 20 40", Some("w2"))

\* What stands between the attribute run and the close tag: the two
\* Terminals in order (shape "pair"), or something else.
TerminalPairs ==
    { [shape |-> "pair", events |-> <<SequenceInTag, SequenceOutTag>>],
      [shape |-> "pair",
       events |-> <<TerminalTag("SequenceIn", "Input", "0 0 18 91", None),
                    SequenceOutTag>>],
      [shape |-> "swapped", events |-> <<SequenceOutTag, SequenceInTag>>],
      [shape |-> "twice", events |-> <<SequenceInTag, SequenceInTag>>],
      [shape |-> "mixed",
       events |-> <<TerminalTag("SequenceIn", "Output", "0 0 18 91", None),
                    SequenceOutTag>>],
      [shape |-> "single", events |-> <<SequenceInTag>>],
      [shape |-> "single", events |-> <<SequenceOutTag>>],
      [shape |-> "other", events |-> <<Event("Comment", "comment", <<>>), SequenceOutTag>>],
      [shape |-> "other", events |-> <<SequenceInTag, EndTag("Terminal")>>] }

\* The motor-move call n1 with the attribute run as and the pair.
MethodDocument(as, pair) ==
    <<MethodCallStartTag("n1", MoveUnlimitedTarget)>>
    \o AttributeRun(as) \o pair.events \o <<EndTag("ConfigurableMethodCall"), Eof>>

\* FileBuilder::default() and a reader over such a document.
MethodInit ==
    /\ \E n \in 0..MaxAttributes : \E as \in [1..n -> BlockAttributes] :
          \E pair \in TerminalPairs :
             /\ tokens = MethodDocument(as, pair)
             /\ input = Some([decoder |-> "motor_move", parts |-> as, pair |-> pair])
    /\ events = <<>>
    /\ idx = 0
    /\ decl = None
    /\ version = None
    /\ name = None
    /\ blocks = EmptyMap
    /\ wires = EmptyMap
    /\ pc = "new"
    /\ parsed = None
    /\ file = None
    /\ steps = 0
    /\ output = None
    /\ NoLoader

\* The events of such a document are one start tag and what its sub-parser
\* consumes.
MethodNext ==
    \/ FromXml
    \/ StartEvent
    \/ EndOfEvents

MethodSpec == MethodInit /\ [][MethodNext]_vars

-----------------------------------------------------------------------------
(* File::new on a document of up to MaxEvents tags that the loop of parse   *)
(* dispatches itself: container start tags with and without their Name,     *)
(* end tags and empty tags of every name the handlers tell apart.           *)

MaxEvents == 2

EndTagNames ==
    IgnoredEndTags
    \cup {"StartBlock", "ConfigurableMethodCall", "ConfigurableMethodTerminal", "Terminal"}

EmptyTagNames == IgnoredEmptyTags \cup {"Icon", "StartBlock", "Terminal", "BlockDiagram"}

TopLevelEvents ==
    {Containers[k] : k \in 1..Len(Containers)}
    \cup {StartTag(tag, <<>>) : tag \in IgnoredStartTags \cup {"Namespace", "BlockDiagram"}}
    \cup {StartTag(tag, <<Attr("Name", "Library")>>) : tag \in {"Namespace", "BlockDiagram"}}
    \cup {StartTag("Namespace", <<Attr("Id", "Project")>>),
          StartTag("BlockDiagram", <<Attr("Id", "__RootDiagram__")>>)}
    \cup {EndTag(tag) : tag \in EndTagNames}
    \cup {EmptyTag(tag, <<>>) : tag \in EmptyTagNames}
    \cup {WireEmptyTag("w1", "N(n1:SequenceOut) N(n2:SequenceIn)")}

\* FileBuilder::default() and a reader over such a document.
DispatchInit ==
    /\ \E n \in 0..MaxEvents : \E es \in [1..n -> TopLevelEvents] :
          tokens = es \o <<Eof>>
    /\ events = <<>>
    /\ idx = 0
    /\ decl = None
    /\ version = None
    /\ name = None
    /\ blocks = EmptyMap
    /\ wires = EmptyMap
    /\ pc = "new"
    /\ parsed = None
    /\ file = None
    /\ steps = 0
    /\ input = None
    /\ output = None
    /\ NoLoader

\* Such a document has tags only.
DispatchNext ==
    \/ FromXml
    \/ StartEvent
    \/ EndEvent
    \/ EmptyEvent
    \/ EndOfEvents

DispatchSpec == DispatchInit /\ [][DispatchNext]_vars

-----------------------------------------------------------------------------
(* The builder's properties, under Spec *)

\* C1 (as the specification states it): when the loop of parse has consumed
\* every event that collect_to_vec handed over, parse returns success.
C1_EndOfStreamIsSuccess ==
    [][(pc = "parse" /\ idx = Len(events)) => parsed' = Some(Ok(<<>>))]_vars

\* C2: for the minimal document (the five container start tags, with or
\* without their end tags) followed by one well-formed StartBlock construct
\* with Id i, once the construct is consumed the block mapping has exactly
\* one entry, keyed i, of the Start variant, whose sequence_out.wire_id is
\* the Terminal's Wire attribute, and is absent when there is none.
C2_MinimalStartBlock ==
    \A i \in {"n1", "n2"}, w \in {None, Some("w1"), Some("w2")}, tail \in {<<>>, Closers} :
        ( /\ events = Containers \o StartBlockConstruct(i, w) \o tail
          /\ idx >= Len(Containers) + Len(StartBlockConstruct(i, w)) )
        => /\ DOMAIN blocks = {i}
           /\ blocks[i].ty = <<"Start">>
           /\ blocks[i].sequence_in = None
           /\ IsSome(blocks[i].sequence_out)
           /\ Unwrap(blocks[i].sequence_out).wire_id = w

\* C2's case: the minimal document with StartBlock n1 wired to w1, consumed.
C2_Witness ==
    /\ events = Containers \o StartBlockConstruct("n1", Some("w1"))
    /\ idx = Len(events)
    /\ DOMAIN blocks = {"n1"}
    /\ Unwrap(blocks["n1"].sequence_out).wire_id = Some("w1")

C4_DuplicateWireId ==
    [][LET t == events[idx + 1]
           r == parse_wire_tag(parse_attributes(t), idx + 1)
       IN  ( /\ NextIs("Empty")
             /\ extract_name_from_qname(t.text).name = "Wire"
             /\ r.ok
             /\ r.val[1] \in DOMAIN wires )
           => /\ pc' = "done"
              /\ parsed' = Some(Err("DuplicateWireId"))
              /\ file' = Some(Err("DuplicateWireId"))
              /\ wires' = wires]_vars

\* C4's case: a second Wire w1, from n3 to n2, was refused and the mapping
\* still holds the first, from n1 to n2.
C4_Witness ==
    /\ parsed = Some(Err("DuplicateWireId"))
    /\ Len(events) = 2
    /\ idx = 2
    /\ parse_wire_tag(parse_attributes(events[2]), 2).val = <<"w1", Wire("n2", "n3")>>
    /\ DOMAIN wires = {"w1"}
    /\ wires["w1"] = Wire("n2", "n1")

\* C5 (as the specification states it): whenever the loop takes a StartBlock
\* or a ConfigurableMethodCall construct that is well-formed and whose Id
\* already keys a block, the parse does not fail, the mapping then holds the
\* later block under that Id, and the loop goes on.
C5_DuplicateBlockOverwrites ==
    [][LET t  == events[idx + 1]
           n  == extract_name_from_qname(t.text)
           r  == IF n.name = "StartBlock"
                 THEN parse_start_block(parse_attributes(t), idx + 1)
                 ELSE parse_method_call(parse_attributes(t), idx + 1)
       IN  ( /\ NextIs("Start")
             /\ n.name \in {"StartBlock", "ConfigurableMethodCall"}
             /\ n.prefix = None
             /\ r.ok
             /\ r.val[1] \in DOMAIN blocks )
           => /\ pc' = "parse"
              /\ parsed' = None
              /\ idx' = r.idx
              /\ DOMAIN blocks' = DOMAIN blocks
              /\ blocks'[r.val[1]] = r.val[2]]_vars

\* C5 (amended): a well-formed StartBlock construct whose Id already keys a
\* block (of either variant) replaces that block and the loop goes on, the
\* other blocks staying as they are; a well-formed ConfigurableMethodCall
\* construct whose Id already keys a block makes the parse fail, and the
\* block mapping is left as it was.
C5_OnlyStartBlockOverwrites ==
    [][LET t  == events[idx + 1]
           n  == extract_name_from_qname(t.text)
           rs == parse_start_block(parse_attributes(t), idx + 1)
           rm == parse_method_call(parse_attributes(t), idx + 1)
       IN  /\ ( /\ NextIs("Start")
                /\ n.name = "StartBlock"
                /\ n.prefix = None
                /\ rs.ok
                /\ rs.val[1] \in DOMAIN blocks )
              => /\ pc' = "parse"
                 /\ parsed' = None
                 /\ idx' = rs.idx
                 /\ DOMAIN blocks' = DOMAIN blocks
                 /\ blocks'[rs.val[1]] = rs.val[2]
                 /\ \A k \in DOMAIN blocks \ {rs.val[1]} : blocks'[k] = blocks[k]
           /\ ( /\ NextIs("Start")
                /\ n.name = "ConfigurableMethodCall"
                /\ n.prefix = None
                /\ rm.ok
                /\ rm.val[1] \in DOMAIN blocks )
              => /\ pc' = "done"
                 /\ IsSome(parsed')
                 /\ ~Unwrap(parsed').ok
                 /\ file' = parsed'
                 /\ blocks' = blocks]_vars

\* C5's case: a second StartBlock n1, wired to w1, has replaced the first,
\* which had no wire.
C5_Witness ==
    /\ pc = "parse"
    /\ events = StartBlockConstruct("n1", None) \o StartBlockConstruct("n1", Some("w1"))
    /\ idx = Len(events)
    /\ DOMAIN blocks = {"n1"}
    /\ Unwrap(blocks["n1"].sequence_out).wire_id = Some("w1")

\* C6: a start tag that the loop takes and whose name is none of the eleven
\* the dispatcher knows makes the parse fail with UnknownTag, wherever it
\* stands and whatever was built before it; File::new returns that error
\* and the mappings are as they were.
C6_UnknownStartTag ==
    [][( /\ NextIs("Start")
         /\ extract_name_from_qname(events[idx + 1].text).name \notin
               {"SourceFile", "Namespace", "VirtualInstrument", "FrontPanel",
                "BlockDiagram", "StartBlock", "ConfigurableMethodCall", "Icon",
                "IconPanel", "AnimationProperties.Animations",
                "EventProperties.Events"} )
       => /\ pc' = "done"
          /\ parsed' = Some(Err("UnknownTag"))
          /\ file' = Some(Err("UnknownTag"))
          /\ idx' = idx + 1
          /\ blocks' = blocks
          /\ wires' = wires]_vars

\* C6's case: the unknown start tag Foo came after a parsed StartBlock.
C6_Witness ==
    /\ parsed = Some(Err("UnknownTag"))
    /\ file = Some(Err("UnknownTag"))
    /\ idx = Len(events)
    /\ idx > 1
    /\ events[idx].kind = "Start"
    /\ events[idx].text = "Foo"
    /\ DOMAIN blocks = {"n1"}

\* C7: the step in which parse fails is its last: File::new returns that
\* same error, never a File, and from then on no event is consumed and
\* neither the mappings nor the outcome change.
C7_FirstFailureEndsParse ==
    [][/\ (IsSome(parsed') /\ ~Unwrap(parsed').ok)
            => (pc' = "done" /\ file' = parsed')
       /\ (IsSome(parsed) /\ ~Unwrap(parsed).ok)
            => UNCHANGED <<idx, parsed, file, blocks, wires, decl, version>>]_vars

\* C7's case: parse failed after it had built a block, with events left over,
\* and File::new returned the error.
C7_Witness ==
    /\ pc = "done"
    /\ IsSome(parsed)
    /\ ~Unwrap(parsed).ok
    /\ file = parsed
    /\ DOMAIN blocks # {}
    /\ idx < Len(events)
-----------------------------------------------------------------------------
(* The decoders' properties, under DecoderSpec *)

\* C8: a bounds string of exactly four fields, each an unsigned integer,
\* decodes to the third and the fourth field, whatever the first two are;
\* a string with another number of fields, or with a field that is no
\* unsigned integer, fails with MalformedBounds.
C8_BoundsDecoding ==
    (IsSome(input) /\ Unwrap(input).decoder = "bounds" /\ IsSome(output))
    => LET parts == Unwrap(input).parts
       IN  IF Len(parts) = 4 /\ \A k \in 1..4 : IsSome(parts[k].num)
           THEN output = Some(Ok(<<Unwrap(parts[3].num), Unwrap(parts[4].num)>>))
           ELSE output = Some(Err("MalformedBounds"))

\* C8's case: "7 305 40 0" has decoded to (40, 0).
C8_Witness ==
    /\ IsSome(input)
    /\ Unwrap(input).text = "7 305 40 0"
    /\ output = Some(Ok(<<40, 0>>))

\* C9: of a joints string of well-shaped tokens only those of kind N count:
\* with one N token of role SequenceIn and one of role SequenceOut, and no
\* other N token, the outcome is (id of the SequenceIn token, id of the
\* SequenceOut token) whatever the order of the tokens and whatever tokens
\* of other kinds stand between them; with two or more N tokens of role
\* SequenceOut and none of role SequenceIn it fails with MalformedJoints.
C9_JointsDecoding ==
    (IsSome(input) /\ Unwrap(input).decoder = "joints" /\ IsSome(output))
    => LET parts == Unwrap(input).parts
           Ns(role) == {k \in 1..Len(parts) : parts[k].kind = "N" /\ parts[k].role = role}
           allN == {k \in 1..Len(parts) : parts[k].kind = "N"}
           shaped == \A k \in 1..Len(parts) : parts[k].shaped
       IN  /\ ( /\ shaped
                /\ Cardinality(Ns("SequenceIn")) = 1
                /\ Cardinality(Ns("SequenceOut")) = 1
                /\ Cardinality(allN) = 2 )
              => \E i \in Ns("SequenceIn"), o \in Ns("SequenceOut") :
                    output = Some(Ok(<<parts[i].id, parts[o].id>>))
           /\ ( /\ shaped
                /\ Ns("SequenceIn") = {}
                /\ Cardinality(Ns("SequenceOut")) >= 2 )
              => output = Some(Err("MalformedJoints"))
           /\ Unwrap(input).text = "N(a:SequenceIn) N(b:SequenceOut) H(c:Bend)"
              => output = Some(Ok(<<"a", "b">>))

\* C9's case: the tokens in another order, the H token between them, have
\* decoded to input a and output b.
C9_Witness ==
    /\ IsSome(input)
    /\ Unwrap(input).text = "N(b:SequenceOut) H(c:Bend) N(a:SequenceIn)"
    /\ output = Some(Ok(<<"a", "b">>))

\* C10 (as the specification states it): the joint decoder succeeds only on
\* a string with exactly one N token of role SequenceIn and exactly one of
\* role SequenceOut; with two or more N tokens of the same role, or an N
\* token of another role, it fails with MalformedJoints.
C10_ExactlyOneOfEachRole ==
    (IsSome(input) /\ Unwrap(input).decoder = "joints" /\ IsSome(output))
    => LET parts == Unwrap(input).parts
           Ns(role) == {k \in 1..Len(parts) : parts[k].kind = "N" /\ parts[k].role = role}
           others == {k \in 1..Len(parts) :
                        /\ parts[k].kind = "N"
                        /\ parts[k].role \notin {"SequenceIn", "SequenceOut"}}
           shaped == \A k \in 1..Len(parts) : parts[k].shaped
       IN  /\ Unwrap(output).ok
              => (Cardinality(Ns("SequenceIn")) = 1 /\ Cardinality(Ns("SequenceOut")) = 1)
           /\ ( /\ shaped
                /\ \/ Cardinality(Ns("SequenceIn")) >= 2
                   \/ Cardinality(Ns("SequenceOut")) >= 2
                   \/ others # {} )
              => output = Some(Err("MalformedJoints"))

\* What C24 says of the decoding of a Ports value, second being the second
\* code of "xxAxxB": the two codes are the characters at the 0-based
\* positions 2 and 4, whatever the other characters are, a value of fewer
\* than 5 characters fails, and "xxAxxB" gives (A, second).
C24_Ports(second) ==
    (IsSome(input) /\ Unwrap(input).decoder = "ports" /\ IsSome(output))
    => LET chars == Unwrap(input).parts
       IN  /\ IF Len(chars) < 5
              THEN ~Unwrap(output).ok /\ ~Unwrap(output).panic
              ELSE output = Some(Ok(<<chars[3], chars[5]>>))
           /\ Unwrap(input).text = "xxAxxB" => output = Some(Ok(<<"A", second>>))

C27_JointsNeverPanic ==
    (IsSome(input) /\ Unwrap(input).decoder = "joints" /\ IsSome(output))
    => \/ Unwrap(output).ok
       \/ output = Some(Err("MalformedJoints"))

\* The pieces of a bounds string that are not empty, in order.
RECURSIVE C28_Fields(_)
C28_Fields(parts) ==
    IF parts = <<>> THEN <<>>
    ELSE IF Head(parts).text = "" THEN C28_Fields(Tail(parts))
    ELSE <<Head(parts)>> \o C28_Fields(Tail(parts))

\* C28 (as the specification states it): a bounds string whose fields,
\* separated by one or more spaces and with or without spaces before the
\* first and behind the last, are four unsigned integers decodes to the
\* third and the fourth of them, as when single spaces separate them.
C28_WhitespaceSeparated ==
    (IsSome(input) /\ Unwrap(input).decoder = "bounds" /\ IsSome(output))
    => LET fields == C28_Fields(Unwrap(input).parts)
       IN  (Len(fields) = 4 /\ \A k \in 1..4 : IsSome(fields[k].num))
           => output = Some(Ok(<<Unwrap(fields[3].num), Unwrap(fields[4].num)>>))

\* What C11 says of the step that takes a ConfigurableMethodCall start tag
\* with an Id, a decodable Bounds and a Target and nothing else, X being the
\* Target value that selects the motor-move decoder: with any other Target
\* the parse fails with UnknownMethodTarget, the cursor just behind the start
\* tag and the blocks as they were; with X the outcome is the motor-move
\* decoder's, never UnknownMethodTarget, and a block it adds is a MotorMove.
C11_Dispatch(X) ==
    LET t    == events[idx + 1]
        n    == extract_name_from_qname(t.text)
        keys == [k \in 1..Len(t.attrs) |-> t.attrs[k].key]
        val(key) == t.attrs[CHOOSE k \in 1..Len(keys) : keys[k] = key].value
    IN  ( /\ NextIs("Start")
          /\ n.name = "ConfigurableMethodCall"
          /\ n.prefix = None
          /\ Len(keys) = 3
          /\ {keys[k] : k \in 1..3} = {"Id", "Bounds", "Target"}
          /\ parse_bounds(val("Bounds")).ok )
        => IF val("Target") = X
           THEN /\ parsed' # Some(Err("UnknownMethodTarget"))
                /\ pc' = "parse"
                   => /\ val("Id") \in DOMAIN blocks'
                      /\ blocks'[val("Id")].ty[1] = "MotorMove"
                      /\ idx' > idx + 1
           ELSE /\ pc' = "done"
                /\ parsed' = Some(Err("UnknownMethodTarget"))
                /\ idx' = idx + 1
                /\ blocks' = blocks

C12_CapturedOnce ==
    [][LET t == events[idx + 1]
           n == extract_name_from_qname(t.text)
           key(k) == t.attrs[k].key
       IN  /\ NextIs("Decl")
              => IF decl = None
                 THEN decl' = Some(t.text) /\ pc' = "parse"
                 ELSE /\ parsed' = Some(Err("DuplicateDeclaration"))
                      /\ pc' = "done"
           /\ ( /\ NextIs("Start")
                /\ n.name = "SourceFile"
                /\ n.prefix = None
                /\ Len(t.attrs) = 2
                /\ {key(1), key(2)} = {"Version", "xmlns"} )
              => IF version = None
                 THEN IsSome(version') /\ pc' = "parse"
                 ELSE /\ parsed' = Some(Err("DuplicateVersion"))
                      /\ pc' = "done"
           /\ IsSome(decl) => decl' = decl
           /\ IsSome(version) => version' = version]_vars

\* C12's case: a second SourceFile start tag, with another Version, failed
\* with DuplicateVersion and the version of the first is still there.
C12_Witness ==
    /\ parsed = Some(Err("DuplicateVersion"))
    /\ events[idx] = SourceFileStartTag("SourceFile", <<"xmlns", "Version">>)
    /\ version = Some([number |-> "1.0.2.10",
                       namespace |-> "http://www.ni.com/SourceModel.xsd"])

\* C13: a SourceFile start tag is accepted only without prefix and with the
\* attributes Version and xmlns and no other; the version then is that
\* Version value with that xmlns value.  With a prefix, another attribute,
\* or without one of the two, the parse fails and the version stays as it
\* was (unset, when this is the first SourceFile tag).
C13_SourceFileTag ==
    [][LET t == events[idx + 1]
           n == extract_name_from_qname(t.text)
           keys == {t.attrs[k].key : k \in 1..Len(t.attrs)}
           val(key) == t.attrs[CHOOSE k \in 1..Len(t.attrs) : t.attrs[k].key = key].value
       IN  (NextIs("Start") /\ n.name = "SourceFile")
           => IF n.prefix = None /\ keys = {"Version", "xmlns"}
              THEN version = None
                   => /\ pc' = "parse"
                      /\ version' = Some([number |-> val("Version"),
                                          namespace |-> val("xmlns")])
              ELSE /\ pc' = "done"
                   /\ IsSome(parsed')
                   /\ ~Unwrap(parsed').ok
                   /\ version' = version]_vars

\* C13's case: a SourceFile start tag with the attribute Foo beside Version
\* and xmlns failed and left the version unset.
C13_Witness ==
    /\ pc = "done"
    /\ parsed = Some(Err("UnknownAttribute"))
    /\ idx = 1
    /\ events[1] = SourceFileStartTag("SourceFile", <<"Version", "xmlns", "Foo">>)
    /\ version = None

\* C14 (as the specification states it): a Text, CData, processing
\* instruction or doctype event that the loop of parse takes makes the parse
\* fail, a Text event with UnexpectedText, whatever its content and
\* whatever the builder holds.
C14_TextAlwaysFails ==
    [][/\ NextIs("Text") => (pc' = "done" /\ parsed' = Some(Err("UnexpectedText")))
       /\ (NextIs("CData") \/ NextIs("PI") \/ NextIs("DocType"))
            => (pc' = "done" /\ IsSome(parsed') /\ ~Unwrap(parsed').ok)]_vars

\* C15: a Comment event moves the cursor by one, leaves declaration,
\* version, name, blocks and wires as they were, and the loop goes on.
C15_CommentIgnored ==
    [][NextIs("Comment")
       => /\ idx' = idx + 1
          /\ pc' = "parse"
          /\ parsed' = None
          /\ UNCHANGED <<decl, version, name, blocks, wires, events>>]_vars

\* C15's case: after a leading comment the parse went on and built the
\* block of the StartBlock behind it.
C15_Witness ==
    /\ pc = "parse"
    /\ events = <<Event("Comment", "comment", <<>>)>> \o StartBlockConstruct("n1", None)
    /\ idx = Len(events)
    /\ DOMAIN blocks = {"n1"}

\* C16 (as the specification states it): a start or empty tag with a name
\* the builder accepts that carries an attribute outside its whitelist (here:
\* an attribute of a name no part of the builder reads) makes the parse fail
\* at once with UnknownAttribute.
C16_AttributesWhitelisted ==
    [][LET t == events[idx + 1]
           n == extract_name_from_qname(t.text)
       IN  ( /\ NextIs("Start") \/ NextIs("Empty")
             /\ n.prefix = None
             /\ \/ /\ t.kind = "Start"
                   /\ n.name \in {"SourceFile", "Namespace", "VirtualInstrument",
                                  "FrontPanel", "BlockDiagram", "StartBlock",
                                  "ConfigurableMethodCall", "Icon", "IconPanel",
                                  "AnimationProperties.Animations",
                                  "EventProperties.Events"}
                \/ /\ t.kind = "Empty"
                   /\ n.name \in {"Wire", "FrontPanelCanvas", "AnimationsContainer",
                                  "EventContainer"}
             /\ \E k \in 1..Len(t.attrs) :
                   t.attrs[k].key \notin
                      {"Version", "xmlns", "Name", "Id", "Target", "Bounds", "Joints",
                       "Direction", "Wire", "DataType", "Hotspot", "ConfiguredValue"} )
           => /\ pc' = "done"
              /\ parsed' = Some(Err("UnknownAttribute"))]_vars

\* C20: at a cursor k below the number of events, next_event returns the
\* event at k (0-based) and leaves the cursor at k + 1, peek_event returns
\* the same event and leaves the cursor at k, so that a next_event after a
\* peek_event returns that event again; at k equal to the number of events
\* both fail with EndOfStream and leave the cursor at k.
C20_EventCursor ==
    \A k \in 0..Len(events) :
        IF k < Len(events)
        THEN /\ next_event(k) = [ok |-> TRUE, event |-> events[k + 1], idx |-> k + 1]
             /\ peek_event(k) = [ok |-> TRUE, event |-> events[k + 1], idx |-> k]
             /\ next_event(peek_event(k).idx).event = peek_event(k).event
        ELSE /\ next_event(k) = [ok |-> FALSE, panic |-> FALSE,
                                 err |-> "EndOfStream", idx |-> k]
             /\ peek_event(k) = next_event(k)

\* C20's case: the motor-move call n1 was consumed, its attribute run read
\* by peek_event and next_event in turn, and the next_event at the end of
\* the events then failed with EndOfStream, the cursor staying there.
C20_Witness ==
    /\ parsed = Some(Err("EndOfStream"))
    /\ events = MotorMoveConstruct("n1", Some("w1"), None)
    /\ idx = Len(events)
    /\ DOMAIN blocks = {"n1"}

\* C25 (as the specification states it): in every state of the builder
\* the block mapping holds at most one block of the Start variant, however
\* many StartBlock constructs the events hold, and so does every File built.
C25_AtMostOneStart ==
    /\ Cardinality({k \in DOMAIN blocks : blocks[k].ty = StartType}) <= 1
    /\ (IsSome(file) /\ Unwrap(file).ok)
       => Cardinality({k \in DOMAIN Unwrap(file).val.blocks :
                         Unwrap(file).val.blocks[k].ty = StartType}) <= 1

\* The wire_ids the sequence terminals of the blocks carry.
C26_WireIds ==
    {Unwrap(Unwrap(blocks[k].sequence_in).wire_id) :
        k \in {j \in DOMAIN blocks : /\ IsSome(blocks[j].sequence_in)
                                      /\ IsSome(Unwrap(blocks[j].sequence_in).wire_id)}}
    \cup
    {Unwrap(Unwrap(blocks[k].sequence_out).wire_id) :
        k \in {j \in DOMAIN blocks : /\ IsSome(blocks[j].sequence_out)
                                      /\ IsSome(Unwrap(blocks[j].sequence_out).wire_id)}}

-----------------------------------------------------------------------------
(* The sub-parsers' properties, under ConstructSpec *)

\* The event e is the one the Start-block sub-parser asks for at the k-th
\* place behind the StartBlock start tag.
C21_InOrder(k, e) ==
    IF k = 1 THEN /\ e.kind = "Start"
                  /\ e.text = "ConfigurableMethodTerminal"
                  /\ e.attrs = <<>>
    ELSE IF k = 2 THEN e.kind = "Empty"
    ELSE IF k = 3 THEN e.kind = "End" /\ e.text = "ConfigurableMethodTerminal"
    ELSE IF k = 4 THEN e.kind = "Empty" /\ e.text = "Terminal"
    ELSE e.kind = "End" /\ e.text = "StartBlock"

\* What C21 says of the step that takes a StartBlock start tag without
\* prefix whose attributes are an Id, a decodable Bounds and a Target:
\* the step is accepted only with the five events in order behind the start
\* tag, and then consumes them and inserts the block; with the first
\* deviation at the k-th place the parse fails and the blocks are as they
\* were, with UnexpectedStructure when another event stands there and with
\* atEnd when the events end there (at the fifth place: if the Terminal at
\* the fourth is one the sub-parser takes).
C21_Order(atEnd) ==
    LET t     == events[idx + 1]
        keys  == [k \in 1..Len(t.attrs) |-> t.attrs[k].key]
        val(key) == t.attrs[CHOOSE k \in 1..Len(keys) : keys[k] = key].value
        avail == Len(events) - (idx + 1)
        bad   == {k \in 1..5 : k > avail \/ ~C21_InOrder(k, events[idx + 1 + k])}
        first == First(bad)
    IN  ( /\ NextIs("Start")
          /\ t.text = "StartBlock"
          /\ Len(keys) = 3
          /\ {keys[k] : k \in 1..3} = {"Id", "Bounds", "Target"}
          /\ parse_bounds(val("Bounds")).ok )
        => /\ pc' = "parse"
              => /\ first = 0
                 /\ idx' = idx + 6
                 /\ val("Id") \in DOMAIN blocks'
                 /\ blocks'[val("Id")].ty = StartType
           /\ first # 0
              => /\ pc' = "done"
                 /\ IsSome(parsed')
                 /\ ~Unwrap(parsed').ok
                 /\ file' = parsed'
                 /\ blocks' = blocks
                 /\ ( \/ first < 5
                      \/ SequenceTerminal(parse_attributes(events[idx + 5]), "Out",
                                          "SequenceOut", "Output", idx + 5).ok )
                    => parsed' = Some(Err(IF first > avail THEN atEnd
                                          ELSE "UnexpectedStructure"))

\* C21 (as the specification states it): the Start-block sub-parser accepts
\* only a ConfigurableMethodTerminal start tag without attributes and
\* prefix, an empty tag, a ConfigurableMethodTerminal end tag, an empty
\* Terminal tag and a StartBlock end tag, in this order; another event kind
\* or tag name at one of the five places, or the events ending early, fails
\* with UnexpectedStructure and inserts no block.
C21_EarlyEndIsUnexpectedStructure == [][C21_Order("UnexpectedStructure")]_vars

\* C21 (amended): the same, the events ending early failing with the
\* EndOfStream of the cursor.
C21_ExactOrder == [][C21_Order("EndOfStream")]_vars

\* C21's case: a StartBlock construct with a Terminal end tag where the
\* ConfigurableMethodTerminal end tag belongs failed there with
\* UnexpectedStructure and inserted no block.
C21_Witness ==
    /\ parsed = Some(Err("UnexpectedStructure"))
    /\ events = Replace(StartBlockConstruct("n3", None), 4, EndTag("Terminal"))
    /\ idx = 4
    /\ blocks = EmptyMap

C23_Keys(e) == {e.attrs[k].key : k \in 1..Len(e.attrs)}

\* The sequence Terminal e carries Id, Direction, Bounds and the DataType
\* of sequence wires.
C23_Complete(e) ==
    /\ e.kind = "Empty"
    /\ e.text = "Terminal"
    /\ {"Id", "Direction", "DataType", "Bounds"} \subseteq C23_Keys(e)
    /\ \A k \in 1..Len(e.attrs) :
          e.attrs[k].key = "DataType" => e.attrs[k].value = SequenceWireDataType

\* C23 (as the specification states it): a StartBlock construct is accepted
\* only if its Terminal (the event before its close tag), and a
\* ConfigurableMethodCall construct only if each of its two Terminals (the
\* two events before its close tag), carries Id, Direction, Bounds and the
\* DataType of sequence wires.
C23_TerminalAttributesRequired ==
    [][LET t == events[idx + 1]
       IN  ( /\ NextIs("Start")
             /\ t.text \in {"StartBlock", "ConfigurableMethodCall"}
             /\ pc' = "parse" )
           => /\ C23_Complete(events[idx' - 1])
              /\ t.text = "ConfigurableMethodCall" => C23_Complete(events[idx' - 2])]_vars

\* C29: a step that takes a StartBlock or ConfigurableMethodCall start tag
\* and fails, at whatever event of the construct, leaves the block and the
\* wire mapping as they were; one that is accepted has consumed the
\* construct up to its close tag, the end tag of that name, and has put
\* the one block of the construct's Id into the mapping, the other blocks
\* and the wires staying as they are.  No other step changes the blocks,
\* and the wires change only by the one wire a Wire tag adds.
C29_InsertedWhenFullyConsumed ==
    [][LET t  == events[idx + 1]
           id == t.attrs[CHOOSE k \in 1..Len(t.attrs) : t.attrs[k].key = "Id"].value
       IN  /\ ( /\ NextIs("Start")
                /\ t.text \in {"StartBlock", "ConfigurableMethodCall"} )
              => IF pc' = "parse"
                 THEN /\ idx' > idx + 1
                      /\ events[idx'] = EndTag(t.text)
                      /\ DOMAIN blocks' = DOMAIN blocks \cup {id}
                      /\ \A k \in DOMAIN blocks \ {id} : blocks'[k] = blocks[k]
                      /\ wires' = wires
                 ELSE /\ pc' = "done"
                      /\ IsSome(parsed')
                      /\ ~Unwrap(parsed').ok
                      /\ blocks' = blocks
                      /\ wires' = wires
           /\ blocks' # blocks
              => /\ NextIs("Start")
                 /\ t.text \in {"StartBlock", "ConfigurableMethodCall"}
           /\ wires' # wires
              => /\ NextIs("Empty")
                 /\ t.text = "Wire"
                 /\ Cardinality(DOMAIN wires') = Cardinality(DOMAIN wires) + 1
                 /\ \A k \in DOMAIN wires : wires'[k] = wires[k]]_vars

\* C29's case: after a StartBlock was built, a method call that a
\* StartBlock end tag closes failed at that tag, and the mapping holds the
\* Start block alone.
C29_Witness ==
    /\ pc = "done"
    /\ parsed = Some(Err("UnexpectedStructure"))
    /\ events = StartBlockConstruct("n1", None)
                \o Replace(MotorMoveN4, Len(MotorMoveN4), EndTag("StartBlock"))
    /\ idx = Len(events)
    /\ DOMAIN blocks = {"n1"}

\* C30: with the cursor at k and an event there that is no start tag, the
\* attribute routine returns none and leaves the cursor at k, and the
\* terminal-pair sub-parser called next takes that event as its first
\* Terminal; with the cursor at the end of the events the routine fails
\* with EndOfStream.
C30_NoneLeavesCursor ==
    \A k \in 0..Len(events) :
        IF k = Len(events)
        THEN parse_block_attribute(k) = FailAt("EndOfStream", k)
        ELSE events[k + 1].kind # "Start"
             => /\ parse_block_attribute(k) = [ok |-> TRUE, idx |-> k, val |-> None]
                /\ LET seq  == parse_method_sequence_blocks(parse_block_attribute(k).idx)
                       e    == events[k + 1]
                       wire == {a \in 1..Len(e.attrs) : e.attrs[a].key = "Wire"}
                   IN  seq.ok
                       => /\ e.kind = "Empty"
                          /\ e.text = "Terminal"
                          /\ seq.idx = k + 2
                          /\ seq.val[1].ty = "In"
                          /\ seq.val[1].wire_id # None
                             => \E a \in wire : seq.val[1].wire_id = Some(e.attrs[a].value)

\* C30's case: the routine returned none at the first Terminal of the
\* method call n4, which the terminal-pair sub-parser then took and the
\* block was built; in a second call, whose events end behind its attribute
\* run, the routine failed with EndOfStream, the cursor at the end.
C30_Witness ==
    /\ parsed = Some(Err("EndOfStream"))
    /\ events = MotorMoveN4 \o SubSeq(MotorMoveN4, 1, 13)
    /\ idx = Len(events)
    /\ DOMAIN blocks = {"n4"}
    /\ Unwrap(blocks["n4"].sequence_in).ty = "In"

\* C37: events are taken in document order and never again: the cursor is
\* between 0 and the number of events and never goes back, the events are
\* not changed once collected, an iteration that takes an event leaves the
\* cursor behind it, a successful next_event at k returns the event at k and
\* moves the cursor to k + 1, and peek_event looks at the one event at the
\* cursor without moving it.
C37_DocumentOrder ==
    [][ /\ idx \in 0..Len(events)
        /\ idx' \in idx..Len(events')
        /\ pc # "new" => events' = events
        /\ (pc = "parse" /\ idx < Len(events)) => idx' > idx
        /\ \A k \in 0..(Len(events) - 1) :
              /\ next_event(k).event = events[k + 1] /\ next_event(k).idx = k + 1
              /\ peek_event(k).event = events[k + 1] /\ peek_event(k).idx = k ]_vars

\* A motor-move call, whose attribute run is read with peek_event and
\* next_event, and a StartBlock behind it were consumed in two iterations.
C37_Witness ==
    /\ events = MotorMoveN4 \o StartBlockConstruct("n1", None)
    /\ idx = Len(events)
    /\ steps = 2
    /\ pc = "parse"
    /\ DOMAIN blocks = {"n1", "n4"}

-----------------------------------------------------------------------------
(* Termination, under FairConstructSpec *)

\* C38: the parse ends, with an outcome or with a panic: every iteration of
\* the loop of parse takes at least one event or ends the loop, every
\* iteration of the attribute loop of the motor-move decoder takes at least
\* one event or ends the run, and the loop of parse runs at most once more
\* than there are events.
C38_Terminates ==
    /\ [](pc # "new" => steps <= Len(events) + 1)
    /\ [](\A k \in 0..Len(events) :
            (parse_block_attribute(k).ok /\ IsSome(parse_block_attribute(k).val))
            => parse_block_attribute(k).idx > k)
    /\ [][pc = "parse" => (idx' > idx \/ pc' # "parse")]_vars
    /\ <>(pc \in {"done", "aborted"})

\* The loop of parse ran once for each of two constructs, a motor-move call
\* with four attributes among them, and once more to find the events
\* exhausted.
C38_Witness ==
    /\ events = StartBlockConstruct("n1", None) \o MotorMoveN4
    /\ steps = Len(<<"StartBlock", "ConfigurableMethodCall", "end">>)
    /\ steps < Len(events) + 1
    /\ pc = "done"

-----------------------------------------------------------------------------
(* The motor-move decoder's properties, under MethodSpec *)

\* The attribute run the document was made of, and where the cursor stands
\* behind it.
C31_Run == Unwrap(input).parts

C31_At == 1 + 3 * Len(C31_Run)

\* Every attribute of the run is one the decoder takes, and the three
\* required ones are among them.
C31_RunComplete ==
    /\ \A k \in 1..Len(C31_Run) : C31_Run[k].known /\ C31_Run[k].decodes
    /\ \A id \in {"Ports", "Steering", "Speed"} :
          \E k \in 1..Len(C31_Run) : C31_Run[k].id = id

\* e is an empty Terminal tag that carries no Id but id and no Direction
\* but direction.
C31_IsTerminal(e, id, direction) ==
    /\ e.kind = "Empty"
    /\ e.text = "Terminal"
    /\ \A k \in 1..Len(e.attrs) :
          /\ e.attrs[k].key = "Id" => e.attrs[k].value = id
          /\ e.attrs[k].key = "Direction" => e.attrs[k].value = direction

\* The SequenceBlock of direction ty with the Bounds and the Wire of e.
C31_BlockOf(e, ty) ==
    SequenceBlock(ty,
                  parse_bounds(Unwrap(LastValue(parse_attributes(e), "Bounds"))).val,
                  LastValue(parse_attributes(e), "Wire"))

\* The two events behind the run are the SequenceIn/Input Terminal and then
\* the SequenceOut/Output Terminal.
C31_PairInOrder ==
    /\ Len(events) >= C31_At + 2
    /\ C31_IsTerminal(events[C31_At + 1], "SequenceIn", "Input")
    /\ C31_IsTerminal(events[C31_At + 2], "SequenceOut", "Output")

\* C31: behind a complete attribute run the terminal-pair sub-parser takes
\* exactly two events, the empty Terminal SequenceIn/Input and then the empty
\* Terminal SequenceOut/Output, and the block gets sequence_in of direction
\* In and sequence_out of direction Out, each with the Bounds and the Wire of
\* its own Terminal; the Terminals swapped, a Terminal with the Id or the
\* Direction of the other position, a single Terminal or another kind of
\* event in either position make the parse fail with nothing inserted.
C31_TerminalPairInOrder ==
    [][ (NextIs("Start") /\ IsSome(input) /\ C31_RunComplete)
        => IF C31_PairInOrder
           THEN /\ parse_method_sequence_blocks(C31_At).ok
                /\ parse_method_sequence_blocks(C31_At).idx = C31_At + 2
                /\ pc' = "parse"
                /\ idx' = C31_At + 3
                /\ DOMAIN blocks' = {"n1"}
                /\ blocks'["n1"].sequence_in
                     = Some(C31_BlockOf(events[C31_At + 1], "In"))
                /\ blocks'["n1"].sequence_out
                     = Some(C31_BlockOf(events[C31_At + 2], "Out"))
           ELSE /\ ~parse_method_sequence_blocks(C31_At).ok
                /\ pc' = "done"
                /\ parsed' = Some(Err("UnexpectedStructure"))
                /\ idx' \in {C31_At + 1, C31_At + 2}
                /\ blocks' = blocks ]_vars

\* The pair with a wire on each Terminal was taken: the block holds both
\* Terminals, each with its own bounds and wire.
C31_Witness ==
    /\ IsSome(input)
    /\ Unwrap(input).pair.events = <<SequenceInTag, SequenceOutTag>>
    /\ pc = "parse"
    /\ idx = C31_At + 3
    /\ "n1" \in DOMAIN blocks
    /\ Unwrap(blocks["n1"].sequence_in).wire_id = Some("w1")
    /\ Unwrap(blocks["n1"].sequence_out).wire_id = Some("w2")
    /\ Unwrap(blocks["n1"].sequence_in).bounds # Unwrap(blocks["n1"].sequence_out).bounds

\* The first attribute of the run that the decoder bails on (0: none).
C32_FirstBad ==
    First({k \in 1..Len(C31_Run) : ~C31_Run[k].known \/ ~C31_Run[k].decodes})

\* One of Ports, Steering, Speed is not in the run.
C32_Missing ==
    \E id \in {"Ports", "Steering", "Speed"} :
       \A k \in 1..Len(C31_Run) : C31_Run[k].id # id

\* C32: the motor-move decoder takes attributes until the routine signals
\* none; an id other than Ports, Steering, Speed and the InterruptsToListenFor
\* id fails, a negative Speed fails, a negative Steering is taken; after the
\* run it fails with MissingRequiredField exactly when one of Ports, Steering,
\* Speed was not supplied, with the cursor still before the first sequence
\* Terminal, and it goes on to the Terminals otherwise.
C32_RequiredAttributes ==
    [][ (NextIs("Start") /\ IsSome(input))
        => IF C32_FirstBad # 0
           THEN /\ pc' = "done"
                /\ idx' = 1 + 3 * C32_FirstBad
                /\ parsed' = Some(Err(IF C31_Run[C32_FirstBad].known
                                      THEN "MalformedField"
                                      ELSE "UnknownAttribute"))
           ELSE IF C32_Missing
           THEN /\ pc' = "done"
                /\ idx' = C31_At
                /\ parsed' = Some(Err("MissingRequiredField"))
           ELSE /\ idx' > C31_At
                /\ parsed' # Some(Err("MissingRequiredField"))
                /\ "n1" \in DOMAIN blocks'
                     => blocks'["n1"].ty = MotorMoveType(<<"B", "C">>, 0 - 50, 75) ]_vars

\* A run whose attributes are all taken, a negative Steering among them, but
\* which lacks one of the three, ended the parse before the Terminals.
C32_Witness ==
    /\ IsSome(input)
    /\ C32_Missing
    /\ C32_FirstBad = 0
    /\ \E k \in 1..Len(C31_Run) : C31_Run[k].id = "Steering"
    /\ pc = "done"
    /\ idx = C31_At
    /\ parsed = Some(Err("MissingRequiredField"))

-----------------------------------------------------------------------------
(* The dispatch of tags by the loop of parse, under DispatchSpec *)

\* The attributes of e hold the key Name, and every Name among them has the
\* value v.
C33_Named(e, v) ==
    /\ \E k \in 1..Len(e.attrs) : e.attrs[k].key = "Name"
    /\ \A k \in 1..Len(e.attrs) : e.attrs[k].key = "Name" => e.attrs[k].value = v

\* C33: a Namespace start tag is taken exactly when it has a Name and that is
\* "Project", a BlockDiagram start tag exactly when it has a Name and that is
\* "__RootDiagram__"; with another Name or with no Name the parse fails.
C33_NameRequired ==
    [][LET t == events[idx + 1]
       IN  /\ (NextIs("Start") /\ t.text = "Namespace")
              => (pc' = "parse") = C33_Named(t, "Project")
           /\ (NextIs("Start") /\ t.text = "BlockDiagram")
              => (pc' = "parse") = C33_Named(t, "__RootDiagram__")]_vars

\* The outcome of a step that takes a tag the loop passes over: the cursor is
\* one further, the loop goes on, the builder holds what it held.
C34_NoOp ==
    /\ pc' = "parse"
    /\ idx' = idx + 1
    /\ UNCHANGED <<events, decl, version, name, blocks, wires>>

\* C34: an end tag taken by the loop of parse changes nothing but the cursor
\* when its name is FrontPanel, BlockDiagram, AnimationProperties.Animations,
\* EventProperties.Events, IconPanel, Icon, VirtualInstrument, Namespace or
\* SourceFile, and ends the parse with a failure for any other name, those
\* of StartBlock, ConfigurableMethodCall and ConfigurableMethodTerminal
\* among them.
C34_EndTagWhitelist ==
    [][NextIs("End")
       => IF events[idx + 1].text
               \in {"FrontPanel", "BlockDiagram", "AnimationProperties.Animations",
                    "EventProperties.Events", "IconPanel", "Icon",
                    "VirtualInstrument", "Namespace", "SourceFile"}
          THEN C34_NoOp
          ELSE /\ pc' = "done"
               /\ parsed' = Some(Err("UnknownTag"))
               /\ UNCHANGED <<blocks, wires>>]_vars

\* An end tag SourceFile was passed over and a StartBlock end tag behind it
\* ended the parse.
C34_Witness ==
    /\ events = <<EndTag("SourceFile"), EndTag("StartBlock")>>
    /\ idx = 2
    /\ parsed = Some(Err("UnknownTag"))

\* C35: an empty tag taken by the loop of parse goes to the wire handler when
\* it is a Wire, changes nothing but the cursor when it is FrontPanelCanvas,
\* AnimationsContainer or EventContainer, and ends the parse with a failure
\* for any other name, the empty forms of Icon, StartBlock, Terminal and
\* BlockDiagram among them.
C35_EmptyTagWhitelist ==
    [][LET t == events[idx + 1]
           r == parse_wire_tag(parse_attributes(t), idx + 1)
       IN  NextIs("Empty")
           => IF t.text = "Wire"
              THEN IF r.ok /\ r.val[1] \notin DOMAIN wires
                   THEN /\ pc' = "parse"
                        /\ idx' = idx + 1
                        /\ wires' = Insert(wires, r.val[1], r.val[2])
                        /\ blocks' = blocks
                   ELSE pc' # "parse" /\ wires' = wires
              ELSE IF t.text \in {"FrontPanelCanvas", "AnimationsContainer",
                                  "EventContainer"}
              THEN C34_NoOp
              ELSE /\ pc' = "done"
                   /\ parsed' = Some(Err("UnknownTag"))
                   /\ UNCHANGED <<blocks, wires>>]_vars

\* An empty AnimationsContainer was passed over and an empty Icon behind it
\* ended the parse.
C35_Witness ==
    /\ events = <<EmptyTag("AnimationsContainer", <<>>), EmptyTag("Icon", <<>>)>>
    /\ idx = 2
    /\ parsed = Some(Err("UnknownTag"))

\* e is a container start tag as the editor writes it, and not a second
\* SourceFile.
C36_Container(e) ==
    /\ e.kind = "Start"
    /\ \/ e \in {Containers[k] : k \in 2..Len(Containers)}
       \/ e = Containers[1] /\ ~IsSome(version)
       \/ e.text \in IgnoredStartTags /\ e.attrs = <<>>

\* C36: the loop of parse keeps no nesting state: wherever the cursor stands
\* and whatever tags came before, a whitelisted end tag and a container
\* start tag are taken and the loop goes on.
C36_NoNestingState ==
    [][LET t == events[idx + 1]
       IN  ( /\ pc = "parse"
             /\ idx < Len(events)
             /\ \/ t.kind = "End" /\ t.text \in IgnoredEndTags
                \/ C36_Container(t) )
           => pc' = "parse" /\ idx' = idx + 1]_vars

\* The end tag SourceFile before any start tag and the BlockDiagram start
\* tag behind it were both taken.
C36_Witness ==
    /\ events = <<EndTag("SourceFile"), Containers[5]>>
    /\ idx = 2
    /\ pc = "parse"

-----------------------------------------------------------------------------
(* The shape of the blocks, under Spec *)

\* A Start block has no sequence_in and a sequence_out of direction Out; a
\* MotorMove block has a sequence_in of direction In and a sequence_out of
\* direction Out.
C39_Shape(b) ==
    IF b.ty = StartType
    THEN /\ b.sequence_in = None
         /\ IsSome(b.sequence_out)
         /\ Unwrap(b.sequence_out).ty = "Out"
    ELSE /\ b.ty[1] = "MotorMove"
         /\ IsSome(b.sequence_in)
         /\ Unwrap(b.sequence_in).ty = "In"
         /\ IsSome(b.sequence_out)
         /\ Unwrap(b.sequence_out).ty = "Out"

\* C39: every block of the mapping has the shape of its variant, and a step
\* of the parse leaves every block it found in the mapping as it was, but
\* for the block whose id is the Id of the tag it takes, and every wire.
C39_BlocksKeepShape ==
    [][ /\ \A k \in DOMAIN blocks' : C39_Shape(blocks'[k])
        /\ pc = "parse"
           => /\ \A k \in DOMAIN blocks :
                    /\ k \in DOMAIN blocks'
                    /\ \/ blocks'[k] = blocks[k]
                       \/ /\ idx < Len(events)
                          /\ LastValue(parse_attributes(events[idx + 1]), "Id") = Some(k)
              /\ \A k \in DOMAIN wires :
                    k \in DOMAIN wires' /\ wires'[k] = wires[k] ]_vars

\* A Start block and a MotorMove block are in the mapping, the second
\* inserted with the first left as it was.
C39_Witness ==
    /\ pc = "parse"
    /\ \E k \in DOMAIN blocks : blocks[k].ty = StartType
    /\ \E k \in DOMAIN blocks : blocks[k].ty # StartType /\ IsSome(blocks[k].sequence_in)
    /\ Len(events) = 22
    /\ events[1].text = "StartBlock"
    /\ idx = Len(events)

-----------------------------------------------------------------------------
(* The properties of build, under BuildSpec *)

\* C17: build returns a File exactly when name, version and declaration are
\* all set, and fails (a required field is missing) otherwise; the File it
\* returns has that name, version and declaration, and its blocks and wires
\* are the builder's mappings.
C17_BuildNeedsAllThree ==
    pc = "built"
    => /\ IsSome(file)
       /\ Unwrap(file).ok <=> (IsSome(name) /\ IsSome(version) /\ IsSome(decl))
       /\ ~Unwrap(file).ok => Unwrap(file) = Err("MissingRequiredField")
       /\ Unwrap(file).ok
          => /\ Unwrap(file).val.blocks = blocks
             /\ Unwrap(file).val.wires = wires
             /\ Unwrap(file).val.name = Unwrap(name)
             /\ Unwrap(file).val.version = Unwrap(version)
             /\ Unwrap(file).val.decl = Unwrap(decl)

\* C17's case: build returned a File with the three blocks and two wires of
\* the builder.
C17_Witness ==
    /\ pc = "built"
    /\ Unwrap(file).ok
    /\ DOMAIN blocks = {"n1", "n2", "n3"}
    /\ DOMAIN Unwrap(file).val.blocks = {"n1", "n2", "n3"}
    /\ DOMAIN Unwrap(file).val.wires = {"w1", "w2"}

-----------------------------------------------------------------------------
(* The properties of project loading, under ProjectSpec *)

\* C18: the members are taken one by one in index order, the member a step
\* reads being the one at index; when File::new has returned an error for a
\* program file, get_project_from_zip returns that error at once, index,
\* files and metadata staying as they are; after it has returned nothing
\* is read or parsed any more; and it returns a Project only with every
\* member behind it.
C18_FirstFailureAbortsLoad ==
    [][/\ index' \in {index, index + 1}
       /\ (pc = "zip" /\ pc' = "new") => tokens' = zip[index + 1].tokens
       /\ (pc = "done" /\ zip # <<>> /\ IsSome(file) /\ ~Unwrap(file).ok)
            => /\ loaded' = file
               /\ pc' = "loaded"
               /\ UNCHANGED <<index, files, metadata, tokens, events, idx>>
       /\ IsSome(loaded)
            => UNCHANGED <<index, files, metadata, tokens, events, idx, loaded, pc>>
       /\ (IsSome(loaded') /\ Unwrap(loaded').ok) => index' = Len(zip)]_vars

\* C18's case: the title was read, the program file behind it failed on
\* its text, and the load returned that error with the seven members
\* behind it unread.
C18_Witness ==
    /\ pc = "loaded"
    /\ loaded = Some(Err("UnexpectedText"))
    /\ index = 1
    /\ Len(zip) = 9
    /\ IsSome(metadata.title)
    /\ \A k \in DOMAIN metadata : k # "title" => metadata[k] = None
    /\ files = <<>>
=============================================================================
